---- MODULE Spec2Model ----
(***************************************************************************)
(* Model of llm-poker-arena: the tournament drivers (HeadsUpMatch,         *)
(* FullTableTournament), the hand engine (HandManager over                 *)
(* GameStateWrapper), the agent decision pipeline (PokerAgent.get_action)  *)
(* and the action parser (ActionParser).                                   *)
(*                                                                         *)
(* The poker rules library (pokerkit) is not part of the repository; the   *)
(* PK_* operators model the calls GameStateWrapper makes on its State      *)
(* object: blinds, the actor queue, bet collection, pot distribution.      *)
(* Cards are not modelled; the result of a showdown is the nondeterministic*)
(* hand strength `rank` of PK_Showdown.                                    *)
(***************************************************************************)
EXTENDS Integers, Sequences, FiniteSets, TLC

\* ---------------------------------------------------------------- bounds
NumHands == 2          \* num_hands of the heads-up match
MaxHands == 2          \* max_hands of the freeze-out
StartingStack == 4     \* starting_stack of both drivers
SmallBlind == 1        \* initial small blind
BigBlind == 2          \* initial big blind
HandsPerLevel == 1     \* hands_per_level of the blind structure
MaxRejected == 1       \* actions the engine rejects in one hand

\* the models of the freeze-out
FullTableModels == <<"model_a", "model_b", "model_c">>

FullTablePlayers == Len(FullTableModels)

\* ------------------------------------------------------ program constants
MAX_TOOL_ROUNDS == 3

None == -1             \* Python None for an int-valued field

\* ---------------------------------------------------------------- helpers
Max2(a, b) == IF a >= b THEN a ELSE b

Min2(a, b) == IF a <= b THEN a ELSE b

RECURSIVE SumOver(_, _)
SumOver(f, S) ==
    IF S = {} THEN 0
    ELSE LET x == CHOOSE y \in S : TRUE IN f[x] + SumOver(f, S \ {x})

MaxOver(f, S) == IF S = {} THEN 0 ELSE CHOOSE m \in {f[x] : x \in S} : \A x \in S : f[x] <= m

MinOfSet(S) == CHOOSE m \in S : \A x \in S : m <= x

Seats(s) == 0 .. (s.n - 1)

Live(s) == {i \in Seats(s) : s.statuses[i]}

\* ------------------------------------------------- pokerkit: distribution
\* chips each seat has put into the pots of this hand
Contrib(s) == [i \in Seats(s) |-> s.starting[i] - s.stacks[i]]

\* what seat i receives from the pot layer ending at level l; the levels
\* are the live seats' contributions, and what folded seats paid above the
\* highest of them belongs to the top layer
LayerGain(s, rank, l, i) ==
    LET c == Contrib(s)
        levels == {c[j] : j \in Live(s)}
        top == \A x \in levels : x <= l
        lower == levels \cap (0 .. (l - 1))
        prev == IF lower = {} THEN 0 ELSE CHOOSE m \in lower : \A x \in lower : x <= m
        layer == [j \in Seats(s) |->
                    (IF top THEN c[j] ELSE Min2(c[j], l)) - Min2(c[j], prev)]
        amount == SumOver(layer, Seats(s))
        elig == {j \in Live(s) : c[j] >= l}
        best == MaxOver(rank, elig)
        W == {j \in elig : rank[j] = best}
    IN  IF i \notin W THEN 0
        ELSE (amount \div Cardinality(W))
             + (IF i = MinOfSet(W) THEN amount % Cardinality(W) ELSE 0)

\* CHIPS_PUSHING and CHIPS_PULLING: every pot goes to the best live hand
\* among the seats that paid into it, and the hand is over
PK_Distribute(s, rank) ==
    LET c == Contrib(s)
        levels == {c[j] : j \in Live(s)} \ {0}
        gain == [i \in Seats(s) |->
                  SumOver([l \in levels |-> LayerGain(s, rank, l, i)], levels)]
    IN  [s EXCEPT !.stacks = [i \in Seats(s) |-> s.stacks[i] + gain[i]],
                  !.pot = 0,
                  !.actors = <<>>,
                  !.await_deal = FALSE,
                  !.status = FALSE]

\* BET_COLLECTION: an unmatched top bet goes back to its owner, the bets
\* go to the pot; then the hand ends (one live seat), reaches the showdown
\* (after the river) or waits for the next street's board cards
PK_EndBetting(s) ==
    LET top == MaxOver(s.bets, Seats(s))
        tops == {i \in Seats(s) : s.bets[i] = top}
        owner == CHOOSE i \in tops : TRUE
        second == MaxOver(s.bets, Seats(s) \ {owner})
        refund == IF Cardinality(tops) = 1 THEN top - second ELSE 0
        stacks1 == [i \in Seats(s) |->
                     IF i = owner THEN s.stacks[i] + refund ELSE s.stacks[i]]
        s1 == [s EXCEPT !.stacks = stacks1,
                        !.pot = s.pot + SumOver(s.bets, Seats(s)) - refund,
                        !.bets = [i \in Seats(s) |-> 0],
                        !.actors = <<>>]
    IN  IF Cardinality(Live(s1)) = 1
        THEN PK_Distribute(s1, [i \in Seats(s) |-> 1])
        ELSE IF s1.street_index = 3
        THEN [s1 EXCEPT !.showdown = TRUE]
        ELSE [s1 EXCEPT !.street_index = s.street_index + 1,
                        !.await_deal = TRUE]

\* the seats that can still act, in the order given
CanAct(s, order) ==
    LET Test(i) == s.statuses[i] /\ s.stacks[i] > 0
    IN  SelectSeq(order, Test)

\* start of a betting round: preflop the action starts left of the big
\* blind and ends on it, later streets start at seat 0; a round nobody can
\* act in is closed at once
PK_BeginBetting(s) ==
    LET opener == IF s.n = 2 THEN 0 ELSE 1
        order == IF s.street_index = 0
                 THEN [k \in 1 .. s.n |-> (opener + k) % s.n]
                 ELSE [k \in 1 .. s.n |-> k - 1]
        q == CanAct(s, order)
        s1 == [s EXCEPT !.actors = q, !.cbr = 0, !.await_deal = FALSE]
    IN  IF Len(q) = 0
           \/ (Len(q) = 1 /\ s.bets[q[1]] >= MaxOver(s.bets, Seats(s)))
        THEN PK_EndBetting(s1)
        ELSE s1

\* NoLimitTexasHoldem.create_state with BLIND_OR_STRADDLE_POSTING: heads-up
\* seat 1 posts the small blind and seat 0 the big blind, otherwise seat 0
\* posts the small blind and seat 1 the big blind
PK_CreateState(stacks, sb, bb) ==
    LET n == Len(stacks)
        blind == [i \in 0 .. (n - 1) |->
                   IF n = 2 THEN (IF i = 0 THEN bb ELSE sb)
                   ELSE (IF i = 0 THEN sb ELSE IF i = 1 THEN bb ELSE 0)]
        posted == [i \in 0 .. (n - 1) |-> Min2(blind[i], stacks[i + 1])]
    IN  [n |-> n,
         starting |-> [i \in 0 .. (n - 1) |-> stacks[i + 1]],
         stacks |-> [i \in 0 .. (n - 1) |-> stacks[i + 1] - posted[i]],
         bets |-> posted,
         statuses |-> [i \in 0 .. (n - 1) |-> TRUE],
         actors |-> <<>>,
         status |-> TRUE,
         street_index |-> 0,
         board |-> 0,
         pot |-> 0,
         cbr |-> 0,
         min_bet |-> bb,
         await_deal |-> FALSE,
         showdown |-> FALSE]

PK_actor_index(s) == IF Len(s.actors) = 0 THEN None ELSE s.actors[1]

PK_checking_or_calling_amount(s) ==
    LET a == PK_actor_index(s)
    IN  Min2(s.stacks[a], MaxOver(s.bets, Seats(s)) - s.bets[a])

PK_can_check_or_call(s) == PK_actor_index(s) # None

PK_can_complete_bet_or_raise_to(s) ==
    LET a == PK_actor_index(s)
    IN  /\ a # None
        /\ s.stacks[a] > MaxOver(s.bets, Seats(s)) - s.bets[a]
        /\ \E i \in Seats(s) : i # a /\ s.statuses[i] /\ s.stacks[i] > 0

PK_max_raise_to(s) ==
    LET a == PK_actor_index(s) IN s.stacks[a] + s.bets[a]

PK_min_raise_to(s) ==
    Min2(PK_max_raise_to(s),
         MaxOver(s.bets, Seats(s)) + Max2(s.cbr, s.min_bet))

\* State.fold refuses a fold by a seat that faces no bet
PK_can_fold(s) ==
    LET a == PK_actor_index(s)
    IN  a # None /\ s.bets[a] < MaxOver(s.bets, Seats(s))

PK_fold(s) ==
    LET a == PK_actor_index(s)
        s1 == [s EXCEPT !.statuses[a] = FALSE, !.actors = Tail(s.actors)]
    IN  IF Cardinality(Live(s1)) = 1 \/ Len(s1.actors) = 0
        THEN PK_EndBetting(s1)
        ELSE s1

PK_check_or_call(s) ==
    LET a == PK_actor_index(s)
        amt == PK_checking_or_calling_amount(s)
        s1 == [s EXCEPT !.stacks[a] = s.stacks[a] - amt,
                        !.bets[a] = s.bets[a] + amt,
                        !.actors = Tail(s.actors)]
    IN  IF Len(s1.actors) = 0 THEN PK_EndBetting(s1) ELSE s1

PK_complete_bet_or_raise_to(s, amount) ==
    LET a == PK_actor_index(s)
        by == amount - MaxOver(s.bets, Seats(s))
        s1 == [s EXCEPT !.stacks[a] = s.stacks[a] - (amount - s.bets[a]),
                        !.bets[a] = amount,
                        !.cbr = Max2(s.cbr, by)]
        order == [k \in 1 .. (s.n - 1) |-> (a + k) % s.n]
        s2 == [s1 EXCEPT !.actors = CanAct(s1, order)]
    IN  IF Len(s2.actors) = 0 THEN PK_EndBetting(s2) ELSE s2

PK_deal_board(s, count) ==
    PK_BeginBetting([s EXCEPT !.board = s.board + count])

\* the showdown: the hands' strengths are what the cards make them
PK_Showdown(s) ==
    IF s.showdown
    THEN {PK_Distribute([s EXCEPT !.showdown = FALSE], rank) : rank \in [Seats(s) -> 1 .. s.n]}
    ELSE {s}

\* --------------------------------------------------------- reply texts
\* A reply text is a sequence of tokens: a word (its letters, case kept) or
\* a numeral (its characters: digits and thousands separators).
Word(t) == [text |-> t, chars |-> <<>>]

Numeral(cs) == [text |-> "#", chars |-> cs]

IsNumeral(tok) == tok.text = "#"

DigitValue(c) ==
    CASE c = "0" -> 0 [] c = "1" -> 1 [] c = "2" -> 2 [] c = "3" -> 3
      [] c = "4" -> 4 [] c = "5" -> 5 [] c = "6" -> 6 [] c = "7" -> 7
      [] c = "8" -> 8 [] c = "9" -> 9

\* the group (\d[\d,]*)\b of a numeral: it ends on its last digit
RECURSIVE Capture(_)
Capture(cs) ==
    IF Len(cs) > 0 /\ cs[Len(cs)] = "," THEN Capture(SubSeq(cs, 1, Len(cs) - 1))
    ELSE cs

\* int(amount_str.replace(",", ""))
RECURSIVE DigitsToInt(_)
DigitsToInt(ds) ==
    IF Len(ds) = 0 THEN 0
    ELSE 10 * DigitsToInt(SubSeq(ds, 1, Len(ds) - 1)) + DigitValue(ds[Len(ds)])

\* the amount read up to the first thousands separator
ParseAmount_UpToSeparator(cs) ==
    LET commas == {k \in 1 .. Len(cs) : cs[k] = ","}
    IN  DigitsToInt(IF commas = {} THEN cs ELSE SubSeq(cs, 1, MinOfSet(commas) - 1))

ParseAmount(cs) ==
    LET NotComma(c) == c # ","
    IN  DigitsToInt(SelectSeq(Capture(cs), NotComma))

\* ---------------------------------------------------------- ActionParser
\* the list with the bare words tried before the amount-bearing patterns
PATTERNS_BareWordsFirst == <<
    [alts |-> {<<"FOLD">>}, action_type |-> "fold", amount_group |-> FALSE],
    [alts |-> {<<"fold">>}, action_type |-> "fold", amount_group |-> FALSE],
    [alts |-> {<<"CHECK">>}, action_type |-> "check", amount_group |-> FALSE],
    [alts |-> {<<"check">>}, action_type |-> "check", amount_group |-> FALSE],
    [alts |-> {<<"CALL">>}, action_type |-> "call", amount_group |-> FALSE],
    [alts |-> {<<"call">>}, action_type |-> "call", amount_group |-> FALSE],
    [alts |-> {<<"RAISE">>}, action_type |-> "raise", amount_group |-> FALSE],
    [alts |-> {<<"raise">>}, action_type |-> "raise", amount_group |-> FALSE],
    [alts |-> {<<"ALL", "IN">>, <<"ALL-IN">>, <<"ALLIN">>}, action_type |-> "allin", amount_group |-> FALSE],
    [alts |-> {<<"go", "all", "in">>, <<"go", "all-in">>, <<"go", "allin">>}, action_type |-> "allin", amount_group |-> FALSE],
    [alts |-> {<<"RAISE", "TO", "#">>}, action_type |-> "raise", amount_group |-> TRUE],
    [alts |-> {<<"RAISE", "#">>}, action_type |-> "raise", amount_group |-> TRUE],
    [alts |-> {<<"raise", "to", "#">>}, action_type |-> "raise", amount_group |-> TRUE],
    [alts |-> {<<"raise", "#">>}, action_type |-> "raise", amount_group |-> TRUE],
    [alts |-> {<<"BET", "#">>}, action_type |-> "raise", amount_group |-> TRUE],
    [alts |-> {<<"bet", "#">>}, action_type |-> "raise", amount_group |-> TRUE] >>

\* PATTERNS, in list order; "#" stands for the amount group
PATTERNS == <<
    [alts |-> {<<"ALL", "IN">>, <<"ALL-IN">>, <<"ALLIN">>}, action_type |-> "allin", amount_group |-> FALSE],
    [alts |-> {<<"go", "all", "in">>, <<"go", "all-in">>, <<"go", "allin">>}, action_type |-> "allin", amount_group |-> FALSE],
    [alts |-> {<<"RAISE", "TO", "#">>}, action_type |-> "raise", amount_group |-> TRUE],
    [alts |-> {<<"RAISE", "#">>}, action_type |-> "raise", amount_group |-> TRUE],
    [alts |-> {<<"raise", "to", "#">>}, action_type |-> "raise", amount_group |-> TRUE],
    [alts |-> {<<"raise", "#">>}, action_type |-> "raise", amount_group |-> TRUE],
    [alts |-> {<<"BET", "#">>}, action_type |-> "raise", amount_group |-> TRUE],
    [alts |-> {<<"bet", "#">>}, action_type |-> "raise", amount_group |-> TRUE],
    [alts |-> {<<"FOLD">>}, action_type |-> "fold", amount_group |-> FALSE],
    [alts |-> {<<"fold">>}, action_type |-> "fold", amount_group |-> FALSE],
    [alts |-> {<<"CHECK">>}, action_type |-> "check", amount_group |-> FALSE],
    [alts |-> {<<"check">>}, action_type |-> "check", amount_group |-> FALSE],
    [alts |-> {<<"CALL">>}, action_type |-> "call", amount_group |-> FALSE],
    [alts |-> {<<"call">>}, action_type |-> "call", amount_group |-> FALSE],
    [alts |-> {<<"RAISE">>}, action_type |-> "raise", amount_group |-> FALSE],
    [alts |-> {<<"raise">>}, action_type |-> "raise", amount_group |-> FALSE] >>

\* alternative alt of a pattern matches the text at token k
MatchesAt(alt, text, k) ==
    /\ k + Len(alt) - 1 <= Len(text)
    /\ \A j \in 1 .. Len(alt) :
          IF alt[j] = "#" THEN IsNumeral(text[k + j - 1])
          ELSE text[k + j - 1].text = alt[j]

\* re.search: the positions at which the pattern matches
MatchPositions(pat, text) ==
    {k \in 1 .. Len(text) : \E alt \in pat.alts : MatchesAt(alt, text, k)}

\* the amount of the leftmost match of an amount-bearing pattern
MatchAmount(pat, text) ==
    LET k == MinOfSet(MatchPositions(pat, text))
        alt == CHOOSE a \in pat.alts : MatchesAt(a, text, k)
    IN  ParseAmount(text[k + Len(alt) - 1].chars)

Truthy(x) == x # None /\ x # 0

LegalTypes(legal_actions) ==
    {legal_actions[k].action_type : k \in 1 .. Len(legal_actions)}

LegalField_Missing(legal_actions, type, field) == None

\* the field of the last entry of the given type, None without one
LegalField(legal_actions, type, field) ==
    LET ks == {k \in 1 .. Len(legal_actions) : legal_actions[k].action_type = type}
    IN  IF ks = {} THEN None
        ELSE legal_actions[CHOOSE k \in ks : \A j \in ks : j <= k][field]

ParsedAction(type, amount, success) ==
    [action_type |-> type, amount |-> amount, success |-> success]

\* the raise-amount clamp of parse
ClampRaise_Unclamped(amount, min_raise, max_raise) == amount

ClampRaise(amount, min_raise, max_raise) ==
    IF amount # None /\ Truthy(min_raise) /\ Truthy(max_raise)
    THEN Max2(min_raise, Min2(amount, max_raise))
    ELSE IF Truthy(min_raise) THEN min_raise
    ELSE amount

\* the loop over PATTERNS from pattern p on
RECURSIVE ParseFrom(_, _, _)
ParseFrom(p, text, legal_actions) ==
    IF p > Len(PATTERNS) THEN ParsedAction("fold", None, FALSE)
    ELSE
    LET pat == PATTERNS[p]
        types == LegalTypes(legal_actions)
        min_raise == LegalField(legal_actions, "raise", "min_raise")
        max_raise == LegalField(legal_actions, "raise", "max_raise")
        call_amount == LegalField(legal_actions, "call", "amount")
        next == ParseFrom(p + 1, text, legal_actions)
    IN  IF MatchPositions(pat, text) = {} THEN next
        ELSE IF pat.action_type = "allin" THEN
            IF "raise" \in types /\ Truthy(max_raise)
            THEN ParsedAction("raise", max_raise, TRUE)
            ELSE IF "call" \in types THEN ParsedAction("call", call_amount, TRUE)
            ELSE next
        ELSE IF pat.action_type = "raise" THEN
            IF "raise" \notin types
            THEN (IF "call" \in types THEN ParsedAction("call", call_amount, TRUE)
                  ELSE next)
            ELSE ParsedAction("raise",
                   ClampRaise(IF pat.amount_group THEN MatchAmount(pat, text) ELSE None,
                              min_raise, max_raise),
                   TRUE)
        ELSE IF pat.action_type = "check" THEN
            IF "check" \notin types
            THEN (IF "call" \in types THEN ParsedAction("call", call_amount, TRUE)
                  ELSE next)
            ELSE ParsedAction("check", None, TRUE)
        ELSE IF pat.action_type = "call" THEN
            IF "call" \notin types
            THEN (IF "check" \in types THEN ParsedAction("check", None, TRUE)
                  ELSE next)
            ELSE ParsedAction("call", call_amount, TRUE)
        ELSE ParsedAction("fold", None, TRUE)

\* ActionParser.parse
parse(response_text, legal_actions) ==
    IF Len(response_text) = 0 THEN ParsedAction("fold", None, FALSE)
    ELSE ParseFrom(1, response_text, legal_actions)

get_default_action_AlwaysFold(legal_actions) == ParsedAction("fold", None, FALSE)

\* ActionParser.get_default_action
get_default_action(legal_actions) ==
    IF "check" \in LegalTypes(legal_actions)
    THEN ParsedAction("check", None, FALSE)
    ELSE ParsedAction("fold", None, FALSE)

\* ------------------------------------------------------ GameStateWrapper
STREETS == <<"preflop", "flop", "turn", "river">>

LegalAction(type, amount, min_raise, max_raise) ==
    [action_type |-> type, amount |-> amount,
     min_raise |-> min_raise, max_raise |-> max_raise]

\* GameStateWrapper.get_legal_actions
get_legal_actions(s) ==
    IF PK_actor_index(s) = None THEN <<>>
    ELSE
      <<LegalAction("fold", None, None, None)>>
      \o (IF PK_can_check_or_call(s)
          THEN (IF PK_checking_or_calling_amount(s) = 0
                THEN <<LegalAction("check", None, None, None)>>
                ELSE <<LegalAction("call", PK_checking_or_calling_amount(s), None, None)>>)
          ELSE <<>>)
      \o (IF PK_can_complete_bet_or_raise_to(s)
          THEN <<LegalAction("raise", None, PK_min_raise_to(s), PK_max_raise_to(s))>>
          ELSE <<>>)

get_active_player_count(s) == Cardinality(Live(s))

is_hand_complete(s) == ~s.status

is_betting_round_complete(s) == PK_actor_index(s) = None /\ s.status

get_current_actor(s) == IF ~s.status THEN None ELSE PK_actor_index(s)

\* GameStateWrapper.get_state_for_player with HandManager._snapshot_to_dict
get_state_for_player(s, player_index, street, history) ==
    LET mine == PK_actor_index(s) = player_index
        raising == mine /\ PK_can_complete_bet_or_raise_to(s)
    IN  [player_index |-> player_index,
         current_player_index |->
             IF PK_actor_index(s) = None \/ PK_actor_index(s) = 0
             THEN -1 ELSE PK_actor_index(s),
         street |-> street,
         pot |-> s.pot + SumOver(s.bets, Seats(s)),
         legal_actions |-> IF mine THEN get_legal_actions(s) ELSE <<>>,
         amount_to_call |-> IF mine THEN PK_checking_or_calling_amount(s) ELSE 0,
         min_raise |-> IF raising THEN PK_min_raise_to(s) ELSE None,
         max_raise |-> IF raising THEN PK_max_raise_to(s) ELSE None,
         history_len |-> Len(history)]

HistoryEntry(player, type, amount, street) ==
    [player |-> player, action |-> type, amount |-> amount, street |-> street]

\* GameStateWrapper.execute_action with _record_action: the new engine
\* state, the betting history and the ActionResult's success flag.
\* strict_fold: this build of the rules library refuses a fold by a seat
\* that faces no bet.
execute_action(s, action, history, street, strict_fold) ==
    LET actor == PK_actor_index(s)
        failure == [state |-> s, history |-> history, success |-> FALSE]
    IN  IF action.type = "fold" THEN
            IF actor = None \/ (strict_fold /\ ~PK_can_fold(s)) THEN failure
            ELSE [state |-> PK_fold(s),
                  history |-> Append(history, HistoryEntry(actor, "fold", 0, street)),
                  success |-> TRUE]
        ELSE IF action.type \in {"check", "call"} THEN
            IF ~PK_can_check_or_call(s) THEN failure
            ELSE LET call_amount == PK_checking_or_calling_amount(s)
                 IN  [state |-> PK_check_or_call(s),
                      history |-> Append(history,
                          HistoryEntry(actor,
                                       IF call_amount = 0 THEN "check" ELSE "call",
                                       call_amount, street)),
                      success |-> TRUE]
        ELSE IF action.type = "raise" THEN
            IF ~PK_can_complete_bet_or_raise_to(s) THEN failure
            ELSE LET given == IF action.amount = None THEN PK_min_raise_to(s)
                              ELSE action.amount
                     amount == Max2(PK_min_raise_to(s), Min2(given, PK_max_raise_to(s)))
                 IN  [state |-> PK_complete_bet_or_raise_to(s, amount),
                      history |-> Append(history, HistoryEntry(actor, "raise", amount, street)),
                      success |-> TRUE]
        ELSE failure

\* GameStateWrapper.deal_community_cards: the street after the deal
StreetAfterDeal(count, current_street) ==
    IF count = 3 THEN "flop"
    ELSE IF current_street = "flop" THEN "turn"
    ELSE IF current_street = "turn" THEN "river"
    ELSE current_street

\* ------------------------------------------------------- blind structure
max_levels == 50

RECURSIVE Pow(_, _)
Pow(b, e) == IF e = 0 THEN 1 ELSE b * Pow(b, e - 1)

\* BlindStructure._generate_levels, multiplier 1.5: level k (from 0) holds
\* int(sb * 1.5^k), int(bb * 1.5^k)
LevelBlinds(k) ==
    << (SmallBlind * Pow(3, k)) \div Pow(2, k), (BigBlind * Pow(3, k)) \div Pow(2, k) >>

\* ------------------------------------------------------------ LLM replies
W_FOLD == Word("FOLD")

ReplyTexts ==
    { <<>>,
      <<Word("I'm"), Word("considering")>>,
      <<W_FOLD>>,
      <<Word("Fold")>>,
      <<Word("CHECK")>>,
      <<Word("CALL")>>,
      <<Word("RAISE")>>,
      <<Word("RAISE"), Numeral(<<"3">>)>>,
      <<Word("raise"), Word("to"), Numeral(<<"5", "0", ",", "0", "0", "0">>)>>,
      <<Word("ALL"), Word("IN")>> }

ToolCall(id, name) == [id |-> id, name |-> name]

ToolCallShapes ==
    { <<ToolCall("c1", "pot_odds_calculator"), ToolCall("c2", "unknown_tool")>> }

ToolReplyContents == { <<>>, <<Word("CALL")>> }

LLMReplies ==
    {[kind |-> "text", content |-> t, tool_calls |-> <<>>] : t \in ReplyTexts}
    \cup {[kind |-> "tools", content |-> t, tool_calls |-> tc] :
             t \in ToolReplyContents, tc \in ToolCallShapes}
    \cup {[kind |-> "exception", content |-> <<>>, tool_calls |-> <<>>]}

\* ------------------------------------------------------------------ state
VARIABLES
    mode,                 \* which driver runs: "heads_up" or "full_table"
    strict_fold,          \* the rules library refuses a fold that faces no bet
    dpc,                  \* driver: "loop", "hand", "done"
    stacks,               \* driver: self.stacks, by model index
    button_position,      \* driver: self.button_position
    active_players,       \* freeze-out: self.active_players
    eliminations,         \* freeze-out: self.eliminations
    hands_played,         \* driver: len(self.hand_results)
    current_level_index,  \* BlindStructure.current_level_index
    hands_at_current_level,
    hpc,                  \* HandManager: "idle", "betting", "agent", "between"
    stage,                \* index in STREETS of the betting round last entered
    hand_continues,       \* result of the last _run_betting_round
    active_indices,       \* model index of each seat of the hand
    state,                \* GameStateWrapper.state (the pokerkit State)
    betting_history,      \* GameStateWrapper.betting_history
    current_street,       \* GameStateWrapper._current_street
    community_cards,      \* len(GameStateWrapper._community_cards)
    decision_logs,        \* HandManager.decision_logs
    last_result,          \* the last execute_action: its ActionResult, for which response
    apc,                  \* get_action: "idle", "loop", "clarify", "returned"
    snapshot,             \* get_action: the game_state it was given
    messages,             \* get_action: the message list
    tool_round,           \* get_action: tool_round
    llm_calls,            \* get_action: the _call_llm calls made so far
    retry_used,           \* get_action: retry_used
    tool_calls_made,      \* get_action: len(tool_calls_made)
    parses,               \* get_action: the replies handed to ActionParser.parse
    response,             \* get_action: the AgentResponse returned
    ppc,                  \* ActionParser.parse called alone: "off", "ready", "parsed"
    p_text,               \* parse: response_text
    p_legal,              \* parse: legal_actions
    p_result,             \* parse: the ParsedAction returned
    rpc,                  \* RoundRobinTournament.run: "off", "loop", "match", "done"
    matchup,              \* round robin: the (model1, model2) of the match under way
    match_results,        \* round robin: self.match_results
    model_stats,          \* round robin: self.model_stats
    bpc,                  \* a BlindStructure and its driver alone: "off", "loop", "hand"
    blind_params,         \* BlindStructure: the arguments of __init__
    blinds_increased,     \* the value the last hand_completed returned
    hand_blinds,          \* the blinds and ante of the GameStateWrapper of the hand
    elo_file,             \* the contents of ELO_DATA_FILE
    elo_systems,          \* by process: elo_system.ratings
    elo_pc,               \* by process: "new" (not imported), "up"
    finished,             \* the rating updates made, in the order they were made
    total_calls,          \* a PokerAgent called alone: self.total_calls
    parse_failures,       \* a PokerAgent called alone: self.parse_failures
    get_action_calls,     \* the get_action calls that have returned
    api_pc,               \* _run_match: its position, "off" when there is no task
    match_store,          \* _match_store[match_id]: status, result, error
    file_bytes,           \* ELO_DATA_FILE on disk: "whole", "empty" or "partial"
    cpc,                  \* dealing alone: "off", "ready", "hole", "flop", "turn", "river"
    rng,                  \* the state of the generator of the random module
    seeded,               \* the seed the process's generator was given
    hole_cards,           \* GameStateWrapper._hole_cards
    board_cards,          \* GameStateWrapper._community_cards
    dealt,                \* the hands dealt so far: seed, hole cards, board
    players_view          \* the players of the last snapshot, and for whom

parserVars == <<ppc, p_text, p_legal, p_result>>

roundRobinVars == <<rpc, matchup, match_results, model_stats>>

blindVars == <<bpc, blind_params, blinds_increased, hand_blinds>>

eloVars == <<elo_file, elo_systems, elo_pc, finished>>

statVars == <<total_calls, parse_failures, get_action_calls>>

apiVars == <<api_pc, match_store, file_bytes>>

cardVars == <<cpc, rng, seeded, hole_cards, board_cards, dealt, players_view>>

\* the state of an agent called alone, of the API task and of the dealing
moreVars == <<statVars, apiVars, cardVars>>

\* the state of the components that run outside a tournament's own loop
auxVars == <<parserVars, roundRobinVars, blindVars, eloVars, moreVars>>

driverVars == <<auxVars, mode, strict_fold, dpc, stacks, button_position, active_players,
                eliminations, hands_played, current_level_index,
                hands_at_current_level>>

\* the driver variables a HeadsUpMatch object holds
driverVarsOfMatch == <<mode, strict_fold, dpc, stacks, button_position, active_players,
                       eliminations, hands_played, current_level_index,
                       hands_at_current_level>>

handVars == <<hpc, stage, hand_continues, active_indices, state, betting_history,
              current_street, community_cards, decision_logs, last_result>>

agentVars == <<apc, snapshot, messages, tool_round, llm_calls, retry_used,
               tool_calls_made, parses, response>>

vars == <<driverVars, handVars, agentVars>>

NoState == PK_CreateState(<<>>, 0, 0)

NoSnapshot == [player_index |-> None]

NoResponse == [action |-> [type |-> "none", amount |-> None]]

NoResult == [requested |-> FALSE, success |-> TRUE, response_error |-> FALSE]

NumModels == IF mode = "heads_up" THEN 2 ELSE FullTablePlayers

\* the drivers, the hand engine and the agent after construction
ProgramInit ==
    /\ mode \in {"heads_up", "full_table"}
    /\ strict_fold \in BOOLEAN
    /\ dpc = "loop"
    /\ stacks = [i \in 0 .. (NumModels - 1) |-> StartingStack]
    /\ button_position = 0
    /\ active_players = 0 .. (NumModels - 1)
    /\ eliminations = <<>>
    /\ hands_played = 0
    /\ current_level_index = 0
    /\ hands_at_current_level = 0
    /\ hpc = "idle"
    /\ stage = 0
    /\ hand_continues = TRUE
    /\ active_indices = <<>>
    /\ state = NoState
    /\ betting_history = <<>>
    /\ current_street = "preflop"
    /\ community_cards = 0
    /\ decision_logs = <<>>
    /\ last_result = NoResult
    /\ apc = "idle"
    /\ snapshot = NoSnapshot
    /\ messages = <<>>
    /\ tool_round = 0
    /\ llm_calls = <<>>
    /\ retry_used = FALSE
    /\ tool_calls_made = 0
    /\ parses = <<>>
    /\ response = NoResponse

\* no call of ActionParser.parse outside get_action
ParserOff ==
    /\ ppc = "off"
    /\ p_text = <<>>
    /\ p_legal = <<>>
    /\ p_result = ParsedAction("fold", None, FALSE)

\* no round robin around the match
RoundRobinOff ==
    /\ rpc = "off"
    /\ matchup = <<>>
    /\ match_results = <<>>
    /\ model_stats = <<>>

\* no BlindStructure driven apart from the tournaments
BlindsOff ==
    /\ bpc = "off"
    /\ blind_params = <<>>
    /\ blinds_increased = FALSE
    /\ hand_blinds = <<>>

\* no rating system in use
EloOff ==
    /\ elo_file = <<>>
    /\ elo_systems = <<>>
    /\ elo_pc = <<>>
    /\ finished = <<>>

\* no agent counted apart from a tournament
StatsOff ==
    /\ total_calls = 0
    /\ parse_failures = 0
    /\ get_action_calls = 0

NoMatch == [status |-> "none", result |-> <<>>, error |-> FALSE]

\* no API task
ApiOff ==
    /\ api_pc = "off"
    /\ match_store = NoMatch
    /\ file_bytes = "whole"

\* no cards followed
CardsOff ==
    /\ cpc = "off"
    /\ rng = 0
    /\ seeded = 0
    /\ hole_cards = <<>>
    /\ board_cards = <<>>
    /\ dealt = <<>>
    /\ players_view = <<>>

MoreOff == StatsOff /\ ApiOff /\ CardsOff

Init == ProgramInit /\ ParserOff /\ RoundRobinOff /\ BlindsOff /\ EloOff /\ MoreOff

\* ------------------------------------------------- PokerAgent.get_action
Message(role, kind, tool_calls, tool_call_id) ==
    [role |-> role, kind |-> kind, tool_calls |-> tool_calls,
     tool_call_id |-> tool_call_id]

\* PokerAgent._call_llm(messages): include_tools=True and
\* force_text_response=False at every call site
CallLLM(round) == [tool_choice |-> "auto", tool_round |-> round]

\* _execute_tools answering the first call only
ToolResults_FirstOnly(tool_calls) ==
    << Message("tool", "result", <<>>, tool_calls[1].id) >>

\* PokerAgent._execute_tools: one tool message per call, in call order
ToolResults(tool_calls) ==
    [k \in 1 .. Len(tool_calls) |->
        Message("tool",
                IF tool_calls[k].name \in {"pot_odds_calculator", "equity_calculator"}
                THEN "result" ELSE "error",
                <<>>, tool_calls[k].id)]

AssistantToolMessage(tool_calls) ==
    Message("assistant", "tool_calls",
            [k \in 1 .. Len(tool_calls) |-> tool_calls[k].id], "")

ActionDict(parsed) == [type |-> parsed.action_type, amount |-> parsed.amount]

AgentResponse(action, tools, parse_success, default_used, retry, error) ==
    [action |-> action, tool_calls |-> tools, parse_success |-> parse_success,
     default_action_used |-> default_used, retry_used |-> retry, error |-> error]

\* the except branch of get_action
ErrorResponse(tools) ==
    AgentResponse([type |-> "fold", amount |-> None], tools, FALSE, TRUE, FALSE, TRUE)

FinalResponse_DropsRetry(parsed, tools, retry) ==
    LET final == IF parsed.success THEN parsed
                 ELSE get_default_action(snapshot.legal_actions)
    IN  AgentResponse(ActionDict(final), tools, final.success, ~parsed.success,
                      FALSE, FALSE)

\* lines 178-207: the default when the last parse failed, and the response
FinalResponse(parsed, tools, retry) ==
    LET final == IF parsed.success THEN parsed
                 ELSE get_default_action(snapshot.legal_actions)
    IN  AgentResponse(ActionDict(final), tools, final.success, ~parsed.success,
                      retry, FALSE)

ParseRecord(text, from_tools, success) ==
    [text |-> text, from_tools |-> from_tools, success |-> success]

\* the bound of the tool loop
ToolLoopOpen_Unbounded(round) == round < MAX_TOOL_ROUNDS + 3

ToolLoopOpen(round) == round < MAX_TOOL_ROUNDS

\* one pass of the tool loop: an LLM call, and what follows its reply up to
\* the next LLM call or the return
LLMCallInLoopSteps ==
    /\ apc = "loop"
    /\ \E reply \in LLMReplies :
        LET tools == reply.kind = "tools"
            round1 == IF tools THEN tool_round + 1 ELSE tool_round
            made1 == IF tools THEN tool_calls_made + Len(reply.tool_calls)
                     ELSE tool_calls_made
            msgs1 == IF tools
                     THEN (messages \o <<AssistantToolMessage(reply.tool_calls)>>)
                          \o ToolResults(reply.tool_calls)
                     ELSE messages
            parsed == parse(reply.content, snapshot.legal_actions)
        IN
        /\ llm_calls' = Append(llm_calls, CallLLM(tool_round))
        /\ IF reply.kind = "exception" THEN
              /\ response' = ErrorResponse(tool_calls_made)
              /\ apc' = "returned"
              /\ UNCHANGED <<messages, tool_round, retry_used, tool_calls_made, parses>>
           ELSE IF tools /\ ToolLoopOpen(round1) THEN
              /\ tool_round' = round1
              /\ tool_calls_made' = made1
              /\ messages' = msgs1
              /\ UNCHANGED <<apc, retry_used, parses, response>>
           ELSE
              /\ tool_round' = round1
              /\ tool_calls_made' = made1
              /\ parses' = Append(parses, ParseRecord(reply.content, tools, parsed.success))
              /\ IF parsed.success THEN
                    /\ response' = FinalResponse(parsed, made1, FALSE)
                    /\ apc' = "returned"
                    /\ messages' = msgs1
                    /\ UNCHANGED retry_used
                 ELSE
                    /\ retry_used' = TRUE
                    /\ messages' = msgs1 \o
                          << Message("assistant", "text", <<>>, ""),
                             Message("user", "clarification", <<>>, "") >>
                    /\ apc' = "clarify"
                    /\ UNCHANGED response
    /\ UNCHANGED snapshot

\* the pass of the tool loop of an agent asked by a hand
LLMCallInLoop == LLMCallInLoopSteps /\ UNCHANGED <<driverVars, handVars>>

\* the clarification call and the return
LLMCallClarifySteps ==
    /\ apc = "clarify"
    /\ \E reply \in LLMReplies :
        LET parsed == parse(reply.content, snapshot.legal_actions)
        IN
        /\ llm_calls' = Append(llm_calls, CallLLM(tool_round))
        /\ apc' = "returned"
        /\ IF reply.kind = "exception" THEN
              /\ response' = ErrorResponse(tool_calls_made)
              /\ UNCHANGED parses
           ELSE
              /\ parses' = Append(parses, ParseRecord(reply.content, reply.kind = "tools", parsed.success))
              /\ response' = FinalResponse(parsed, tool_calls_made, retry_used)
    /\ UNCHANGED <<snapshot, messages, tool_round, retry_used, tool_calls_made>>

\* the clarification call of an agent asked by a hand
LLMCallClarify == LLMCallClarifySteps /\ UNCHANGED <<driverVars, handVars>>

\* ------------------------------------------------------------ HandManager
\* the fields of a DecisionLog the engine's order is read from
DecisionLog(player_index, street, resp) ==
    [player_index |-> player_index, street |-> street, action |-> resp.action]

AgentIdle ==
    /\ apc' = "idle"
    /\ snapshot' = NoSnapshot
    /\ messages' = <<>>
    /\ tool_round' = 0
    /\ llm_calls' = <<>>
    /\ retry_used' = FALSE
    /\ tool_calls_made' = 0
    /\ parses' = <<>>
    /\ response' = NoResponse

\* HandManager.play_hand up to the first betting round: the engine is
\* created (blinds posted) and the hole cards are dealt
BeginHand(seats, sb, bb) ==
    LET starting == [k \in 1 .. Len(seats) |-> stacks[seats[k]]]
    IN  /\ active_indices' = seats
        /\ state' \in PK_Showdown(PK_BeginBetting(PK_CreateState(starting, sb, bb)))
        /\ betting_history' = <<>>
        /\ current_street' = "preflop"
        /\ community_cards' = 0
        /\ decision_logs' = <<>>
        /\ last_result' = NoResult
        /\ stage' = 0
        /\ hand_continues' = TRUE
        /\ hpc' = "betting"
        /\ dpc' = "hand"

\* _run_betting_round, lines 213-243: the loop asks the actor's agent
RequestDecision ==
    /\ hpc = "betting"
    /\ ~is_hand_complete(state)
    /\ ~is_betting_round_complete(state)
    /\ get_current_actor(state) # None
    /\ get_active_player_count(state) > 1
    /\ Len(decision_logs) - Len(betting_history) < MaxRejected
    /\ hpc' = "agent"
    /\ apc' = "loop"
    /\ snapshot' = get_state_for_player(state, get_current_actor(state),
                                        current_street, betting_history)
    /\ messages' = << Message("system", "prompt", <<>>, ""),
                      Message("user", "action_prompt", <<>>, "") >>
    /\ tool_round' = 0
    /\ llm_calls' = <<>>
    /\ retry_used' = FALSE
    /\ tool_calls_made' = 0
    /\ parses' = <<>>
    /\ response' = NoResponse
    /\ UNCHANGED <<driverVars, stage, hand_continues, active_indices, state,
                   betting_history, current_street, community_cards,
                   decision_logs, last_result>>

\* _run_betting_round, lines 245-262: the returned action is executed and
\* the decision is logged
ExecuteAndLog ==
    /\ hpc = "agent"
    /\ apc = "returned"
    /\ LET r == execute_action(state, response.action, betting_history,
                                current_street, strict_fold)
        IN  /\ state' \in PK_Showdown(r.state)
            /\ betting_history' = r.history
            /\ last_result' = [requested |-> TRUE, success |-> r.success,
                                response_error |-> response.error]
    /\ decision_logs' = Append(decision_logs,
                               DecisionLog(snapshot.player_index, STREETS[stage + 1], response))
    /\ hpc' = "betting"
    /\ AgentIdle
    /\ UNCHANGED <<driverVars, stage, hand_continues, active_indices,
                   current_street, community_cards>>

\* _run_betting_round, lines 215-229: the round returns
BettingRoundReturns ==
    /\ hpc = "betting"
    /\ \/ is_hand_complete(state)
       \/ is_betting_round_complete(state)
       \/ get_current_actor(state) = None
       \/ get_active_player_count(state) <= 1
    /\ hand_continues' =
          IF is_hand_complete(state) THEN FALSE
          ELSE IF is_betting_round_complete(state) THEN TRUE
          ELSE IF get_current_actor(state) = None THEN TRUE
          ELSE FALSE
    /\ hpc' = "between"
    /\ UNCHANGED <<driverVars, agentVars, stage, active_indices, state,
                   betting_history, current_street, community_cards,
                   decision_logs, last_result>>

\* the guard of play_hand's flop, turn and river blocks
StreetGate_Ungated == TRUE

StreetGate == hand_continues /\ get_active_player_count(state) > 1

\* play_hand, lines 123-136: the next street is dealt and its round entered
DealStreet ==
    /\ hpc = "between"
    /\ stage < 3
    /\ StreetGate
    /\ LET count == IF stage = 0 THEN 3 ELSE 1
       IN  /\ state' \in PK_Showdown(PK_deal_board(state, count))
           /\ community_cards' = community_cards + count
           /\ current_street' = StreetAfterDeal(count, current_street)
    /\ stage' = stage + 1
    /\ hpc' = "betting"
    /\ UNCHANGED <<driverVars, agentVars, hand_continues, active_indices,
                   betting_history, decision_logs, last_result>>

\* play_hand, lines 123-136: the street's block is skipped
SkipStreet ==
    /\ hpc = "between"
    /\ stage < 3
    /\ ~StreetGate
    /\ stage' = stage + 1
    /\ UNCHANGED <<driverVars, agentVars, hpc, hand_continues, active_indices, state,
                   betting_history, current_street, community_cards,
                   decision_logs, last_result>>

\* ----------------------------------------------------------------- drivers
HandIdle ==
    /\ hpc' = "idle"
    /\ stage' = 0
    /\ hand_continues' = TRUE
    /\ active_indices' = <<>>
    /\ state' = NoState
    /\ betting_history' = <<>>
    /\ current_street' = "preflop"
    /\ community_cards' = 0
    /\ decision_logs' = <<>>
    /\ last_result' = NoResult

MinStack == MinOfSet({stacks[i] : i \in DOMAIN stacks})

\* HeadsUpMatch.run, lines 117-149: the next hand of the match is started
HeadsUpStartHand ==
    /\ mode = "heads_up"
    /\ dpc = "loop"
    /\ hands_played < NumHands
    /\ MinStack > 0
    /\ BeginHand(IF button_position = 0 THEN <<0, 1>> ELSE <<1, 0>>,
                 SmallBlind, BigBlind)
    /\ UNCHANGED <<auxVars, mode, strict_fold, stacks, button_position, active_players,
                   eliminations, hands_played, current_level_index,
                   hands_at_current_level, agentVars>>

\* HeadsUpMatch.run, lines 117-121 and 172-177: the match ends
HeadsUpFinish ==
    /\ mode = "heads_up"
    /\ dpc = "loop"
    /\ hands_played >= NumHands \/ MinStack <= 0
    /\ dpc' = "done"
    /\ UNCHANGED <<auxVars, mode, strict_fold, stacks, button_position, active_players,
                   eliminations, hands_played, current_level_index,
                   hands_at_current_level, handVars, agentVars>>

get_original_index_Unswapped(hand_index) == hand_index

\* HeadsUpMatch._get_original_index
get_original_index(hand_index) ==
    IF button_position = 0 THEN hand_index ELSE 1 - hand_index

\* HandManager.play_hand, lines 142-153: ending_stack of seat j
ending_stack_WinningsOnly(j) ==
    state.starting[j] + Max2(0, state.stacks[j] - state.starting[j])

ending_stack(j) ==
    LET payoff == state.stacks[j] - state.starting[j]
    IN  state.starting[j] + payoff

\* BlindStructure.hand_completed
BlindsAfterHand ==
    IF hands_at_current_level + 1 >= HandsPerLevel /\ current_level_index < max_levels - 1
    THEN <<current_level_index + 1, 0>>
    ELSE <<current_level_index, hands_at_current_level + 1>>

\* HeadsUpMatch.run, lines 149-162: the hand's result is folded into the
\* match and the button moves
HeadsUpHandReturns ==
    /\ mode = "heads_up"
    /\ hpc = "between"
    /\ stage = 3
    /\ stacks' = [i \in 0 .. 1 |->
                    LET j == CHOOSE h \in 0 .. 1 : get_original_index(h) = i
                    IN  ending_stack(j)]
    /\ hands_played' = hands_played + 1
    /\ button_position' = 1 - button_position
    /\ dpc' = "loop"
    /\ HandIdle
    /\ UNCHANGED <<auxVars, mode, strict_fold, active_players, eliminations,
                   current_level_index, hands_at_current_level, agentVars>>

\* FullTableTournament._get_seat_order filtered as in run, lines 132-136
FullTableSeats ==
    LET n == FullTablePlayers
        order == [k \in 1 .. n |-> (button_position + k - 1) % n]
        Seated(i) == i \in active_players /\ stacks[i] > 0
    IN  SelectSeq(order, Seated)

\* FullTableTournament.run, lines 121-158: the next hand is started
FullTableStartHand ==
    /\ mode = "full_table"
    /\ dpc = "loop"
    /\ Cardinality(active_players) > 1
    /\ hands_played < MaxHands
    /\ Len(FullTableSeats) >= 2
    /\ BeginHand(FullTableSeats, LevelBlinds(current_level_index)[1],
                 LevelBlinds(current_level_index)[2])
    /\ UNCHANGED <<auxVars, mode, strict_fold, stacks, button_position, active_players,
                   eliminations, hands_played, current_level_index,
                   hands_at_current_level, agentVars>>

\* FullTableTournament.run, lines 121, 138-139 and 188-193: the tournament ends
FullTableFinish ==
    /\ mode = "full_table"
    /\ dpc = "loop"
    /\ \/ Cardinality(active_players) <= 1
       \/ hands_played >= MaxHands
       \/ Len(FullTableSeats) < 2
    /\ dpc' = "done"
    /\ UNCHANGED <<auxVars, mode, strict_fold, stacks, button_position, active_players,
                   eliminations, hands_played, current_level_index,
                   hands_at_current_level, handVars, agentVars>>

Eliminated_Unrecorded(out, elims, new_stacks, hand_num) == elims

\* FullTableTournament._check_eliminations: the players out, in index
\* order, after the entries already recorded
RECURSIVE Eliminated(_, _, _, _)
Eliminated(out, elims, new_stacks, hand_num) ==
    IF out = {} THEN elims
    ELSE LET i == MinOfSet(out)
         IN  Eliminated(out \ {i},
                        Append(elims, [player_index |-> i,
                                       position |-> FullTablePlayers - Len(elims),
                                       eliminated_at_hand |-> hand_num]),
                        new_stacks, hand_num)

RotatedButton_NextSeat(active) == (button_position + 1) % FullTablePlayers

\* FullTableTournament._rotate_button
RotatedButton(active) ==
    LET n == FullTablePlayers
        steps == {k \in 1 .. n : ((button_position + k) % n) \in active}
    IN  IF steps = {} THEN button_position
        ELSE (button_position + MinOfSet(steps)) % n

\* FullTableTournament.run, lines 158-173: the hand's result is folded into
\* the tournament: stacks, eliminations, blinds, button
FullTableHandReturns ==
    /\ mode = "full_table"
    /\ hpc = "between"
    /\ stage = 3
    /\ LET new_stacks == [i \in 0 .. (FullTablePlayers - 1) |->
                            IF \E k \in 1 .. Len(active_indices) : active_indices[k] = i
                            THEN ending_stack((CHOOSE k \in 1 .. Len(active_indices) :
                                                  active_indices[k] = i) - 1)
                            ELSE stacks[i]]
           out == {i \in active_players : new_stacks[i] <= 0}
       IN  /\ stacks' = new_stacks
           /\ active_players' = active_players \ out
           /\ eliminations' = Eliminated(out, eliminations, new_stacks, hands_played + 1)
           /\ button_position' = RotatedButton(active_players \ out)
    /\ hands_played' = hands_played + 1
    /\ current_level_index' = BlindsAfterHand[1]
    /\ hands_at_current_level' = BlindsAfterHand[2]
    /\ dpc' = "loop"
    /\ HandIdle
    /\ UNCHANGED <<auxVars, mode, strict_fold, agentVars>>

Next ==
    \/ HeadsUpStartHand
    \/ HeadsUpHandReturns
    \/ HeadsUpFinish
    \/ FullTableStartHand
    \/ FullTableHandReturns
    \/ FullTableFinish
    \/ RequestDecision
    \/ LLMCallInLoop
    \/ LLMCallClarify
    \/ ExecuteAndLog
    \/ BettingRoundReturns
    \/ DealStreet
    \/ SkipStreet

Spec == Init /\ [][Next]_vars

\* ------------------------------------------------------------ type sanity
TypeOK ==
    /\ dpc \in {"loop", "hand", "done"}
    /\ hpc \in {"idle", "betting", "agent", "between"}
    /\ apc \in {"idle", "loop", "clarify", "returned"}
    /\ stage \in 0 .. 3
    /\ (hpc = "between" /\ stage < 3 /\ StreetGate) => state.await_deal
    /\ (hpc = "between" /\ stage = 3) => ~state.status
    /\ SumOver(state.stacks, Seats(state)) + SumOver(state.bets, Seats(state)) + state.pot
          = SumOver(state.starting, Seats(state))
    /\ \A i \in Seats(state) : state.stacks[i] >= 0

\* ------------------------------------------- ActionParser.parse on its own
MaxTokens == 3         \* tokens in a reply text handed to parse

\* the words of a reply, letter case kept, and the numerals
ParserWords ==
    {"fold", "FOLD", "Fold", "check", "CHECK", "call", "CALL",
     "raise", "RAISE", "Raise", "to", "TO", "bet", "BET",
     "all", "in", "ALL", "IN", "all-in", "ALL-IN", "allin",
     "go", "going", "I'm", "it"}

ParserNumerals ==
    { <<"3">>, <<"5", "0", "0">>, <<"9", "9", "9", "9">>,
      <<"5", "0", ",", "0", "0", "0">> }

ParserTokens == {Word(w) : w \in ParserWords} \cup {Numeral(cs) : cs \in ParserNumerals}

ParserTexts == UNION {[1 .. n -> ParserTokens] : n \in 0 .. MaxTokens}

\* legal_actions as get_legal_actions builds them: fold, then check or
\* call, then raise when the actor can raise
ParserLegalSets ==
    { <<LegalAction("fold", None, None, None), LegalAction("check", None, None, None)>>,
      <<LegalAction("fold", None, None, None), LegalAction("check", None, None, None),
        LegalAction("raise", None, 2, 4)>>,
      <<LegalAction("fold", None, None, None), LegalAction("call", 1, None, None)>>,
      <<LegalAction("fold", None, None, None), LegalAction("call", 1, None, None),
        LegalAction("raise", None, 3, 4)>>,
      <<LegalAction("fold", None, None, None), LegalAction("call", 200, None, None),
        LegalAction("raise", None, 400, 1000)>> }

\* a caller hands a reply text and a legal set to ActionParser.parse
ParserInit ==
    /\ ProgramInit
    /\ mode = "heads_up"
    /\ strict_fold
    /\ ppc = "ready"
    /\ p_text \in ParserTexts
    /\ p_legal \in ParserLegalSets
    /\ p_result = ParsedAction("fold", None, FALSE)
    /\ RoundRobinOff
    /\ BlindsOff
    /\ EloOff
    /\ MoreOff

\* ActionParser.parse returns
ParserParse ==
    /\ ppc = "ready"
    /\ p_result' = parse(p_text, p_legal)
    /\ ppc' = "parsed"
    /\ UNCHANGED <<moreVars, p_text, p_legal, roundRobinVars, blindVars, eloVars, mode, strict_fold, dpc, stacks,
                   button_position, active_players, eliminations, hands_played, current_level_index,
                   hands_at_current_level, handVars, agentVars>>

ParserSpec == ParserInit /\ [][ParserParse]_vars

\* ------------------------------------------------------------------ claims
NumStacks == SumOver(stacks, DOMAIN stacks)

\* C1: after every hand folded back into the driver's stacks, the stacks
\* of all players sum to K x starting_stack.
C1_ChipsConserved == NumStacks = NumModels * StartingStack

C1_Witness ==
    /\ dpc = "loop"
    /\ hands_played >= 1
    /\ \E i \in DOMAIN stacks : stacks[i] > StartingStack

\* C2: the action get_action returns is a member of the legal_actions of
\* the snapshot it was given: its type is legal, and a raise carries an
\* amount between min_raise and max_raise.
C2_ReturnedActionIsLegal ==
    apc = "returned" =>
        LET a == response.action
            L == snapshot.legal_actions
        IN  /\ a.type \in LegalTypes(L)
            /\ a.type = "raise" =>
                  /\ LegalField(L, "raise", "min_raise") <= a.amount
                  /\ a.amount <= LegalField(L, "raise", "max_raise")

C2_Witness ==
    /\ apc = "returned"
    /\ response.action.type = "raise"
    /\ Len(parses) >= 1
    /\ parses[Len(parses)].text = <<Word("RAISE"), Numeral(<<"3">>)>>
    /\ response.action.amount > 3

\* C3: a decision makes at most MAX_TOOL_ROUNDS + 2 LLM calls, the call it
\* is about to make included, and what it returns is an AgentResponse with
\* an action; every step of a decision is one LLM call, so it terminates.
C3_DecisionBounded ==
    /\ Len(llm_calls) <= MAX_TOOL_ROUNDS + 2
    /\ apc \in {"loop", "clarify"} => Len(llm_calls) < MAX_TOOL_ROUNDS + 2
    /\ apc = "returned" => response.action.type \in {"fold", "check", "call", "raise"}

C3_Witness ==
    /\ apc = "returned"
    /\ Len(llm_calls) = MAX_TOOL_ROUNDS + 1
    /\ response.error

\* C4: once the model has answered with tool calls in MAX_TOOL_ROUNDS
\* rounds, the next LLM call is made with tool_choice "none", and the text
\* parsed for an action comes from a reply that requested no tools.
C4_TextForcedAfterToolCap ==
    /\ \A k \in DOMAIN llm_calls :
          llm_calls[k].tool_round >= MAX_TOOL_ROUNDS => llm_calls[k].tool_choice = "none"
    /\ Len(parses) >= 1 => ~parses[1].from_tools

ClarificationsSent ==
    Cardinality({k \in DOMAIN messages : messages[k].kind = "clarification"})

\* C5: the clarification prompt is sent at most once in a decision, and
\* exactly when the first parsed reply failed to parse; when the reply to
\* it parses, the response has retry_used, parse_success, no default, and
\* the action parsed from that reply ("CALL" gives Call(call amount)).
C5_ClarifiedOnce ==
    /\ ClarificationsSent <= 1
    /\ ClarificationsSent = 1 <=> (Len(parses) >= 1 /\ ~parses[1].success)
    /\ (apc = "returned" /\ Len(parses) = 2 /\ parses[2].success) =>
          /\ response.retry_used
          /\ response.parse_success
          /\ ~response.default_action_used
          /\ response.action = ActionDict(parse(parses[2].text, snapshot.legal_actions))
          /\ (parses[2].text = <<Word("CALL")>>
              /\ "call" \in LegalTypes(snapshot.legal_actions)) =>
                 response.action = [type |-> "call", amount |-> snapshot.amount_to_call]

C5_Witness ==
    /\ apc = "returned"
    /\ Len(parses) = 2
    /\ parses[1].text = <<Word("I'm"), Word("considering")>>
    /\ parses[2].text = <<Word("CALL")>>
    /\ response.action.type = "call"
    /\ response.retry_used

\* C6: when the first reply and the reply to the clarification both fail
\* to parse, the action is Check if check is legal and Fold otherwise,
\* with parse_success false and default_action_used true.
C6_DefaultAfterTwoFailures ==
    (apc = "returned" /\ Len(parses) = 2 /\ ~parses[1].success /\ ~parses[2].success) =>
        /\ response.action =
              [type |-> IF "check" \in LegalTypes(snapshot.legal_actions)
                        THEN "check" ELSE "fold",
               amount |-> None]
        /\ ~response.parse_success
        /\ response.default_action_used

C6_Witness ==
    /\ apc = "returned"
    /\ Len(parses) = 2
    /\ ~parses[1].success
    /\ parses[2].text = <<>>
    /\ "check" \in LegalTypes(snapshot.legal_actions)
    /\ response.action.type = "check"
    /\ response.default_action_used

\* C7: when an LLM call of a decision raises, get_action returns Fold with
\* the error recorded, parse_success false and default_action_used true,
\* and the hand goes on with the next action: the fold is applied.
C7_TransportFailureFolds ==
    /\ (apc = "returned" /\ response.error) =>
          /\ response.action.type = "fold"
          /\ ~response.parse_success
          /\ response.default_action_used
    /\ (last_result.requested /\ last_result.response_error) => last_result.success

Last(seq) == seq[Len(seq)]

\* C8: when the engine rejects the action an agent returned, the safe
\* default (Check or Fold) is applied for that seat in its place and the
\* hand proceeds.
C8_RejectedActionReplaced ==
    (last_result.requested /\ ~last_result.success) =>
        /\ Len(betting_history) = Len(decision_logs)
        /\ Last(betting_history).player = Last(decision_logs).player_index
        /\ Last(betting_history).action \in {"check", "fold"}

\* C9: the decision log has exactly one entry per action applied to the
\* engine, by the same seat and on the same street as the betting history
\* entry of the same index, and one decision is requested at a time.
C9_LogMatchesHistory ==
    /\ Len(decision_logs) = Len(betting_history)
    /\ \A k \in DOMAIN decision_logs :
          k \in DOMAIN betting_history =>
             /\ decision_logs[k].player_index = betting_history[k].player
             /\ decision_logs[k].street = betting_history[k].street
    /\ apc # "idle" => hpc = "agent"

CardsOnStreet(street) ==
    CASE street = "preflop" -> 0 [] street = "flop" -> 3
      [] street = "turn" -> 4 [] street = "river" -> 5

\* C10: the board holds 0, 3, 4 or 5 cards, as many as the current street
\* has, and the streets come in order; once one live seat remains no
\* decision is requested and no board card is dealt after the fold that
\* left it alone.
C10_StreetsInOrder ==
    /\ community_cards \in {0, 3, 4, 5}
    /\ community_cards = CardsOnStreet(current_street)
    /\ community_cards = state.board
    /\ hpc # "idle" => community_cards <= CardsOnStreet(STREETS[stage + 1])
    /\ \A j, k \in DOMAIN betting_history :
          j <= k => CardsOnStreet(betting_history[j].street)
                       <= CardsOnStreet(betting_history[k].street)
    /\ (hpc # "idle" /\ Cardinality(Live(state)) = 1) =>
          /\ hpc # "agent"
          /\ Len(betting_history) > 0
          /\ community_cards = CardsOnStreet(Last(betting_history).street)

C10_Witness ==
    /\ hpc = "between"
    /\ stage = 3
    /\ Cardinality(Live(state)) = 1
    /\ community_cards = 3

\* ------------------------------------------------- claims on ActionParser
\* the word in lower-case letters
Lowercase(w) ==
    CASE w \in {"FOLD", "Fold"} -> "fold"
      [] w = "CHECK" -> "check"
      [] w = "CALL" -> "call"
      [] w \in {"RAISE", "Raise"} -> "raise"
      [] w = "TO" -> "to"
      [] w = "BET" -> "bet"
      [] w = "ALL" -> "all"
      [] w = "IN" -> "in"
      [] w = "ALL-IN" -> "all-in"
      [] OTHER -> w

\* the tokens that differ from tok in letter case at most
CaseForms(tok) ==
    IF IsNumeral(tok) THEN {tok}
    ELSE {Word(w) : w \in {x \in ParserWords : Lowercase(x) = Lowercase(tok.text)}}

\* the texts that differ from text in letter case at most
RECURSIVE Recasings(_)
Recasings(text) ==
    IF Len(text) = 0 THEN {<<>>}
    ELSE {<<h>> \o t : h \in CaseForms(Head(text)), t \in Recasings(Tail(text))}

\* C11: parse applies its patterns case-insensitively: changing the letter
\* case of the words of a reply changes neither the parsed action nor its
\* success flag.
C11_CaseInsensitive ==
    ppc = "parsed" =>
        \A v \in Recasings(p_text) : parse(v, p_legal) = p_result

\* the reply holds an all-in token: "all in", "all-in" or "allin", any case
HasAllInToken(text) ==
    \/ \E k \in 1 .. Len(text) : Lowercase(text[k].text) \in {"all-in", "allin"}
    \/ \E k \in 1 .. (Len(text) - 1) :
          Lowercase(text[k].text) = "all" /\ Lowercase(text[k + 1].text) = "in"

\* C12: a reply with an all-in token parses with success to Raise(max_raise)
\* when raise is legal, and to Call(call_amount) when raise is not legal
\* but call is.
C12_AllInParses ==
    (ppc = "parsed" /\ HasAllInToken(p_text)) =>
        /\ "raise" \in LegalTypes(p_legal) =>
              p_result = ParsedAction("raise", LegalField(p_legal, "raise", "max_raise"), TRUE)
        /\ ("raise" \notin LegalTypes(p_legal) /\ "call" \in LegalTypes(p_legal)) =>
              p_result = ParsedAction("call", LegalField(p_legal, "call", "amount"), TRUE)

\* the number a numeral of ParserNumerals writes
NumeralValue(cs) ==
    CASE cs = <<"3">> -> 3
      [] cs = <<"5", "0", "0">> -> 500
      [] cs = <<"9", "9", "9", "9">> -> 9999
      [] cs = <<"5", "0", ",", "0", "0", "0">> -> 50000

\* the reply is "raise N", "raise to N" or "bet N", in lower or upper case
IsRaiseWithAmount(text) ==
    \/ /\ Len(text) = 2
       /\ text[1].text \in {"raise", "RAISE", "bet", "BET"}
       /\ IsNumeral(text[2])
    \/ /\ Len(text) = 3
       /\ <<text[1].text, text[2].text>> \in {<<"raise", "to">>, <<"RAISE", "TO">>}
       /\ IsNumeral(text[3])

\* C13: for a reply "raise N", "raise to N" or "bet N" with raise legal the
\* parsed amount is max(min_raise, min(N, max_raise)), N read without its
\* thousands separators; a raise without amount gives min_raise; clamping
\* the parsed amount again leaves it as it is.
C13_RaiseClamped ==
    (ppc = "parsed" /\ "raise" \in LegalTypes(p_legal)) =>
        LET min_raise == LegalField(p_legal, "raise", "min_raise")
            max_raise == LegalField(p_legal, "raise", "max_raise")
            N == NumeralValue(p_text[Len(p_text)].chars)
        IN  /\ IsRaiseWithAmount(p_text) =>
                  p_result = ParsedAction("raise", Max2(min_raise, Min2(N, max_raise)), TRUE)
            /\ p_text \in {<<Word("raise")>>, <<Word("RAISE")>>} =>
                  p_result = ParsedAction("raise", min_raise, TRUE)
            /\ p_result.action_type = "raise" =>
                  ClampRaise(p_result.amount, min_raise, max_raise) = p_result.amount

C13_Witness ==
    /\ ppc = "parsed"
    /\ p_text = <<Word("RAISE"), Numeral(<<"5", "0", ",", "0", "0", "0">>)>>
    /\ LegalField(p_legal, "raise", "max_raise") = 1000
    /\ p_result = ParsedAction("raise", 1000, TRUE)

\* the reply names an action of words and no other: its other tokens are
\* numerals and words no pattern matches
OnlySays(text, words) ==
    /\ \E k \in 1 .. Len(text) : text[k].text \in words
    /\ \A k \in 1 .. Len(text) :
          text[k].text \in words \cup {"#", "it", "I'm", "going", "to", "TO", "Fold", "Raise"}

\* the amount of the call entry of a legal set
CallAmount(legal) ==
    LET k == CHOOSE j \in 1 .. Len(legal) : legal[j].action_type = "call"
    IN  legal[k].amount

\* C14: an action that is not legal is downgraded to its complement with
\* success: check becomes Call(call_amount) when call is legal, call
\* becomes Check when check is legal, raise (with or without amount)
\* becomes Call(call_amount) when raise is not legal and call is;
\* "check it" with {fold, call 200, raise [400, 1000]} gives Call(200).
C14_DowngradeToComplement ==
    ppc = "parsed" =>
        LET types == LegalTypes(p_legal)
            call == ParsedAction("call", CallAmount(p_legal), TRUE)
        IN  /\ (OnlySays(p_text, {"check", "CHECK"}) /\ "check" \notin types /\ "call" \in types)
                  => p_result = call
            /\ (OnlySays(p_text, {"call", "CALL"}) /\ "call" \notin types /\ "check" \in types)
                  => p_result = ParsedAction("check", None, TRUE)
            /\ (OnlySays(p_text, {"raise", "RAISE"}) /\ "raise" \notin types /\ "call" \in types)
                  => p_result = call
            /\ (IsRaiseWithAmount(p_text) /\ "raise" \notin types /\ "call" \in types)
                  => p_result = call
            /\ (p_text = <<Word("check"), Word("it")>>
                /\ "call" \in types /\ CallAmount(p_legal) = 200)
                  => p_result = ParsedAction("call", 200, TRUE)

C14_Witness ==
    /\ ppc = "parsed"
    /\ p_text = <<Word("check"), Word("it")>>
    /\ "raise" \in LegalTypes(p_legal)
    /\ p_result = ParsedAction("call", 200, TRUE)

\* the patterns, by index, that match somewhere in the reply
Matching(text) ==
    {p \in 1 .. Len(PATTERNS) : MatchPositions(PATTERNS[p], text) # {}}

\* the action types a pattern's branch of parse can return
Outcomes(pattern_type) ==
    CASE pattern_type = "allin" -> {"raise", "call"}
      [] pattern_type = "raise" -> {"raise", "call"}
      [] pattern_type = "check" -> {"check", "call"}
      [] pattern_type = "call" -> {"call", "check"}
      [] pattern_type = "fold" -> {"fold"}

\* C15 as stated: the first pattern in list order that matches anywhere in
\* the reply decides the action.
C15_FirstMatchDecides ==
    (ppc = "parsed" /\ Matching(p_text) # {} /\ p_result.success) =>
        p_result.action_type \in Outcomes(PATTERNS[MinOfSet(Matching(p_text))].action_type)

\* the pattern's action, or the action it is downgraded to, is legal
Usable(pattern_type, legal) ==
    Outcomes(pattern_type) \cap LegalTypes(legal) # {}

\* the action type a usable pattern gives
Decided(pattern_type, legal) ==
    LET types == LegalTypes(legal)
    IN  CASE pattern_type \in {"allin", "raise"} ->
                 IF "raise" \in types THEN "raise" ELSE "call"
          [] pattern_type = "check" -> IF "check" \in types THEN "check" ELSE "call"
          [] pattern_type = "call" -> IF "call" \in types THEN "call" ELSE "check"
          [] pattern_type = "fold" -> "fold"

\* a reply of a bare fold, check or call word and a raise with amount,
\* in either order
BareAndRaise(text) ==
    /\ Len(text) = 3
    /\ \/ /\ text[1].text \in {"fold", "FOLD", "check", "CHECK", "call", "CALL"}
          /\ IsRaiseWithAmount(SubSeq(text, 2, 3))
       \/ /\ text[3].text \in {"fold", "FOLD", "check", "CHECK", "call", "CALL"}
          /\ IsRaiseWithAmount(SubSeq(text, 1, 2))

\* a reply of an all-in token the list holds and a raise with amount, in
\* either order
AllInAndRaise(text) ==
    /\ Len(text) = 3
    /\ \/ text[1].text \in {"ALL-IN", "ALLIN"} /\ IsRaiseWithAmount(SubSeq(text, 2, 3))
       \/ text[3].text \in {"ALL-IN", "ALLIN"} /\ IsRaiseWithAmount(SubSeq(text, 1, 2))

\* C15, amended: the patterns are tried in list order, and the first one
\* that matches anywhere in the reply and whose action, or the action it is
\* downgraded to, is legal decides the action, wherever the words stand; a
\* matching pattern with no legal outcome is passed over. With raise legal
\* an all-in token wins over a raise with amount, and a raise with amount
\* wins over a bare fold, check or call word ("fold" and "raise 500" give
\* Raise(500), clamped).
C15_FirstUsableMatchDecides ==
    ppc = "parsed" =>
        LET usable == {p \in Matching(p_text) : Usable(PATTERNS[p].action_type, p_legal)}
            min_raise == LegalField(p_legal, "raise", "min_raise")
            max_raise == LegalField(p_legal, "raise", "max_raise")
            amounts == {k \in 1 .. Len(p_text) : IsNumeral(p_text[k])}
            N == NumeralValue(p_text[CHOOSE k \in amounts : TRUE].chars)
        IN  /\ IF usable = {} THEN ~p_result.success
               ELSE /\ p_result.success
                    /\ p_result.action_type =
                          Decided(PATTERNS[MinOfSet(usable)].action_type, p_legal)
            /\ (AllInAndRaise(p_text) /\ "raise" \in LegalTypes(p_legal)) =>
                  p_result = ParsedAction("raise", max_raise, TRUE)
            /\ (BareAndRaise(p_text) /\ "raise" \in LegalTypes(p_legal)) =>
                  p_result = ParsedAction("raise", Max2(min_raise, Min2(N, max_raise)), TRUE)

C15_Witness ==
    /\ ppc = "parsed"
    /\ p_text = <<Word("ALL-IN"), Word("CHECK")>>
    /\ LegalTypes(p_legal) = {"fold", "check"}
    /\ p_result = ParsedAction("check", None, TRUE)

\* C16: parse never raises, and when no pattern yields an action (an empty
\* reply included) its result has success false and proposes Check if check
\* is legal and Fold otherwise.
C16_FailureProposesDefault ==
    (ppc = "parsed" /\ ~p_result.success) =>
        p_result.action_type =
            IF "check" \in LegalTypes(p_legal) THEN "check" ELSE "fold"

\* ------------------------------------------------- claims on HeadsUpMatch
\* the model (0 or 1) whose agent sits at seat j of the hand being played
ModelAtSeat(j) == active_indices[j + 1]

\* C17: in a heads-up match a model starts each hand with the stack that
\* same model ended the hand before with (starting_stack in the first
\* hand), for either button position.
C17_StacksCarryForward ==
    [][ /\ (mode = "heads_up" /\ dpc = "loop" /\ dpc' = "hand") =>
              \A j \in 0 .. 1 : state'.starting[j] = stacks[active_indices'[j + 1]]
        /\ (mode = "heads_up" /\ dpc = "hand" /\ dpc' = "loop") =>
              \A j \in 0 .. 1 : stacks'[ModelAtSeat(j)] = state.stacks[j]
        /\ (mode = "heads_up" /\ hands_played = 0 /\ dpc = "loop" /\ dpc' = "hand") =>
              \A j \in 0 .. 1 : state'.starting[j] = StartingStack ]_vars

C17_Witness ==
    /\ mode = "heads_up"
    /\ dpc = "loop"
    /\ hands_played = 2
    /\ stacks[1] > stacks[0]

\* the seat of the hand at which the model holding the button sits
ButtonSeat == CHOOSE j \in 0 .. 1 : ModelAtSeat(j) = button_position

\* the blinds are posted and nobody has acted yet
BlindsJustPosted ==
    /\ dpc = "hand"
    /\ hpc = "betting"
    /\ stage = 0
    /\ betting_history = <<>>
    /\ decision_logs = <<>>
    /\ state.status
    /\ Len(state.actors) > 0

\* the hand was ended by the small blind's fold, the first action preflop
SmallBlindFolded ==
    /\ dpc = "hand"
    /\ hpc = "between"
    /\ stage = 3
    /\ Len(betting_history) = 1
    /\ betting_history[1].action = "fold"

\* C18: in a heads-up match the button alternates every hand starting with
\* model1, the button seat posts the small blind, and when the small blind
\* folds preflop the button holder loses exactly the small blind, so that
\* both stacks are the starting stack after two such hands.
C18_ButtonPostsSmallBlind ==
    mode = "heads_up" =>
        /\ dpc = "loop" => button_position = hands_played % 2
        /\ BlindsJustPosted =>
              state.bets[ButtonSeat] = Min2(SmallBlind, state.starting[ButtonSeat])
        /\ SmallBlindFolded =>
              state.stacks[ButtonSeat] = state.starting[ButtonSeat] - SmallBlind

\* ------------------------------------------------- the heads-up match alone
\* HeadsUpMatch.run as a sequential program: the steps of the match, of its
\* hands and of the agents it asks.  run is one coroutine that is awaited to
\* completion, and every LLM request returns or raises (litellm's timeout),
\* so whenever some step is possible a step is eventually taken.
HeadsUpInit == Init /\ mode = "heads_up"

HeadsUpNext ==
    \/ HeadsUpStartHand
    \/ HeadsUpHandReturns
    \/ HeadsUpFinish
    \/ RequestDecision
    \/ LLMCallInLoop
    \/ LLMCallClarify
    \/ ExecuteAndLog
    \/ BettingRoundReturns
    \/ DealStreet
    \/ SkipStreet

\* a step of ExecuteAndLog, told by the positions of the hand and the agent:
\* execute_action returns for every action it is given
ExecuteAndLogReturns ==
    /\ hpc = "agent"
    /\ apc = "returned"
    /\ hpc' = "betting"

\* a step of DealStreet, told by the street counter: the board is dealt
\* whenever the street's block is entered
DealStreetReturns ==
    /\ hpc = "between"
    /\ stage < 3
    /\ StreetGate
    /\ stage' = stage + 1

\* each step of run, when it is the one the program is at, is eventually taken
HeadsUpFairness ==
    /\ WF_vars(HeadsUpStartHand)
    /\ WF_vars(HeadsUpHandReturns)
    /\ WF_vars(HeadsUpFinish)
    /\ WF_vars(RequestDecision)
    /\ WF_vars(LLMCallInLoop)
    /\ WF_vars(LLMCallClarify)
    /\ WF_hpc(ExecuteAndLogReturns)
    /\ WF_vars(BettingRoundReturns)
    /\ WF_stage(DealStreetReturns)
    /\ WF_vars(SkipStreet)

HeadsUpSpec == HeadsUpInit /\ [][HeadsUpNext]_vars /\ HeadsUpFairness

model1 == 0
model2 == 1

model1_profit == stacks[0] - StartingStack
model2_profit == stacks[1] - StartingStack

winner_TieGoesToModel2 ==
    IF model1_profit > model2_profit THEN model1
    ELSE model2

\* _build_result, lines 265-269
winner ==
    IF model1_profit > model2_profit THEN model1
    ELSE IF model2_profit > model1_profit THEN model2
    ELSE None

\* the MatchResult returned by run
MatchResult ==
    [model1 |-> model1,
     model2 |-> model2,
     hands_played |-> hands_played,
     model1_profit |-> model1_profit,
     model2_profit |-> model2_profit,
     model1_final_stack |-> stacks[0],
     model2_final_stack |-> stacks[1],
     winner |-> winner]

\* C20: the winner reported by a heads-up match is the model whose final
\* stack is strictly greater, and the winner is null exactly when the two
\* final stacks are equal.
C20_WinnerHasGreaterStack ==
    (mode = "heads_up" /\ dpc = "done") =>
        LET r == MatchResult
        IN  /\ r.winner = model1 <=> r.model1_final_stack > r.model2_final_stack
            /\ r.winner = model2 <=> r.model2_final_stack > r.model1_final_stack
            /\ r.winner = None <=> r.model1_final_stack = r.model2_final_stack
            /\ r.model1_final_stack = stacks[0]
            /\ r.model2_final_stack = stacks[1]

\* a match that ends level after all its hands were played
C20_Witness ==
    /\ mode = "heads_up"
    /\ dpc = "done"
    /\ hands_played = NumHands
    /\ stacks[0] = stacks[1]
    /\ MatchResult.winner = None

\* ------------------------------------------------------ RoundRobinTournament
\* the models of the round robin, by index
RoundRobinModels == <<"model_a", "model_b", "model_c">>

NumRoundRobinModels == Len(RoundRobinModels)

RoundRobinIndices == 0 .. (NumRoundRobinModels - 1)

\* itertools.combinations(self.models, 2): the pairs in lexicographic order
matchups ==
    LET n == NumRoundRobinModels
        pairs == [k \in 1 .. n * n |-> << (k - 1) \div n, (k - 1) % n >>]
        Ordered(pr) == pr[1] < pr[2]
    IN  SelectSeq(pairs, Ordered)

\* the entry of self.model_stats of a model before its first match
NoStats == [wins |-> 0, losses |-> 0, ties |-> 0, profit |-> 0, hands_played |-> 0]

\* a tournament after construction; no match object exists yet
RoundRobinInit ==
    /\ ProgramInit
    /\ mode = "heads_up"
    /\ strict_fold
    /\ ParserOff
    /\ BlindsOff
    /\ EloOff
    /\ rpc = "loop"
    /\ matchup = <<>>
    /\ match_results = <<>>
    /\ model_stats = [m \in RoundRobinIndices |-> NoStats]
    /\ MoreOff

\* run, lines 98-111: the HeadsUpMatch of the next matchup is constructed
RoundRobinStartMatch ==
    /\ rpc = "loop"
    /\ Len(match_results) < Len(matchups)
    /\ matchup' = matchups[Len(match_results) + 1]
    /\ stacks' = [i \in 0 .. 1 |-> StartingStack]
    /\ button_position' = 0
    /\ hands_played' = 0
    /\ dpc' = "loop"
    /\ rpc' = "match"
    /\ UNCHANGED <<moreVars, parserVars, blindVars, eloVars, match_results, model_stats, mode, strict_fold,
                   active_players, eliminations, current_level_index,
                   hands_at_current_level, handVars, agentVars>>

\* what a heads-up match can end with: the chips of model1 and the hands
\* played; the match stops before NumHands only when a stack is empty
MatchOutcomes ==
    {o \in (0 .. 2 * StartingStack) \X (1 .. NumHands) :
        o[2] < NumHands => o[1] \in {0, 2 * StartingStack}}

\* run, line 113: HeadsUpMatch.run from its first hand to its last, as one step
RoundRobinMatchRuns ==
    /\ rpc = "match"
    /\ dpc = "loop"
    /\ \E o \in MatchOutcomes :
          /\ stacks' = [i \in 0 .. 1 |-> IF i = 0 THEN o[1] ELSE 2 * StartingStack - o[1]]
          /\ hands_played' = o[2]
          /\ button_position' = o[2] % 2
    /\ dpc' = "done"
    /\ UNCHANGED <<auxVars, mode, strict_fold, active_players, eliminations,
                   current_level_index, hands_at_current_level, handVars, agentVars>>

\* the MatchResult of the match under way, with the tournament's models
RoundRobinMatchResult ==
    [MatchResult EXCEPT !.model1 = matchup[1],
                        !.model2 = matchup[2],
                        !.winner = IF winner = None THEN None ELSE matchup[winner + 1]]

\* RoundRobinTournament._update_stats
update_stats(stats, result) ==
    LET m1 == result.model1
        m2 == result.model2
        Outcome(m) ==
            IF result.winner = None THEN "ties"
            ELSE IF result.winner = m THEN "wins" ELSE "losses"
        Updated(m, profit) ==
            [wins |-> stats[m].wins + (IF Outcome(m) = "wins" THEN 1 ELSE 0),
             losses |-> stats[m].losses + (IF Outcome(m) = "losses" THEN 1 ELSE 0),
             ties |-> stats[m].ties + (IF Outcome(m) = "ties" THEN 1 ELSE 0),
             profit |-> stats[m].profit + profit,
             hands_played |-> stats[m].hands_played + result.hands_played]
    IN  [m \in DOMAIN stats |->
            IF m = m1 THEN Updated(m, result.model1_profit)
            ELSE IF m = m2 THEN Updated(m, result.model2_profit)
            ELSE stats[m]]

\* run, lines 113-117: the match returns and its result is recorded
RoundRobinMatchReturns ==
    /\ rpc = "match"
    /\ dpc = "done"
    /\ match_results' = Append(match_results, RoundRobinMatchResult)
    /\ model_stats' = update_stats(model_stats, RoundRobinMatchResult)
    /\ rpc' = "loop"
    /\ UNCHANGED <<moreVars, parserVars, blindVars, eloVars, matchup, driverVarsOfMatch, handVars,
                   agentVars>>

\* run, lines 98 and 127: all matchups were played
RoundRobinFinish ==
    /\ rpc = "loop"
    /\ Len(match_results) = Len(matchups)
    /\ rpc' = "done"
    /\ UNCHANGED <<moreVars, parserVars, blindVars, eloVars, matchup, match_results, model_stats,
                   driverVarsOfMatch, handVars, agentVars>>

RoundRobinNext ==
    \/ RoundRobinStartMatch
    \/ RoundRobinMatchRuns
    \/ RoundRobinMatchReturns
    \/ RoundRobinFinish

RoundRobinSpec == RoundRobinInit /\ [][RoundRobinNext]_vars

StandingBefore_Ascending(a, b) ==
    \/ model_stats[a].profit < model_stats[b].profit
    \/ model_stats[a].profit = model_stats[b].profit /\ a < b

\* _build_result, line 172: the stable sort by profit, largest first, of the
\* entries listed in the order of self.models
StandingBefore(a, b) ==
    \/ model_stats[a].profit > model_stats[b].profit
    \/ model_stats[a].profit = model_stats[b].profit /\ a < b

\* _build_result, lines 159-172
standings ==
    [k \in 1 .. NumRoundRobinModels |->
        LET m == CHOOSE x \in RoundRobinIndices :
                    Cardinality({y \in RoundRobinIndices : StandingBefore(y, x)}) = k - 1
        IN  [model |-> m,
             wins |-> model_stats[m].wins,
             losses |-> model_stats[m].losses,
             ties |-> model_stats[m].ties,
             profit |-> model_stats[m].profit,
             hands_played |-> model_stats[m].hands_played]]

\* the matches of the tournament a model took part in
MatchesOf(m) ==
    {k \in 1 .. Len(match_results) :
        match_results[k].model1 = m \/ match_results[k].model2 = m}

ProfitIn(k, m) ==
    IF match_results[k].model1 = m THEN match_results[k].model1_profit
    ELSE match_results[k].model2_profit

\* C21: a round robin of K distinct models plays exactly C(K,2) matches,
\* one per unordered pair, each starting both players at starting_stack
\* whatever the earlier matches gave; the final standings hold each model
\* exactly once, in non-increasing order of its profit summed over its
\* K-1 matches.
C21_RoundRobinStandings ==
    /\ (rpc = "match" /\ dpc = "loop") =>
          \A i \in 0 .. 1 : stacks[i] = StartingStack
    /\ rpc = "done" =>
          /\ 2 * Len(match_results) = NumRoundRobinModels * (NumRoundRobinModels - 1)
          /\ \A a, b \in RoundRobinIndices :
                a < b => Cardinality({k \in 1 .. Len(match_results) :
                            {match_results[k].model1, match_results[k].model2} = {a, b}}) = 1
          /\ Len(standings) = NumRoundRobinModels
          /\ \A m \in RoundRobinIndices :
                Cardinality({k \in 1 .. Len(standings) : standings[k].model = m}) = 1
          /\ \A k \in 1 .. (Len(standings) - 1) :
                standings[k].profit >= standings[k + 1].profit
          /\ \A k \in 1 .. Len(standings) :
                LET m == standings[k].model
                    profits == [j \in MatchesOf(m) |-> ProfitIn(j, m)]
                IN  /\ Cardinality(MatchesOf(m)) = NumRoundRobinModels - 1
                    /\ standings[k].profit = SumOver(profits, MatchesOf(m))

\* a finished tournament whose last model leads after losing chips in one
\* of its matches, a match having begun from the stacks another one left
C21_Witness ==
    /\ rpc = "done"
    /\ standings[1].model = NumRoundRobinModels - 1
    /\ standings[1].profit > standings[2].profit
    /\ \E k \in MatchesOf(standings[1].model) : ProfitIn(k, standings[1].model) < 0
    /\ standings[NumRoundRobinModels].profit < 0

\* --------------------------------------- FullTableTournament._build_result
\* _build_result, lines 315-322: the entry of an eliminated player
StandingOfEliminated(elim) ==
    [model |-> elim.player_index,
     final_stack |-> 0,
     position |-> elim.position,
     hands_played |-> elim.eliminated_at_hand,
     eliminated_at |-> elim.eliminated_at_hand]

\* _build_result, lines 325-326: the stable sort of the players still in,
\* listed in index order, by stack, largest first
RemainingBefore(a, b) ==
    \/ stacks[a] > stacks[b]
    \/ stacks[a] = stacks[b] /\ a < b

remaining ==
    [k \in 1 .. Cardinality(active_players) |->
        CHOOSE i \in active_players :
            Cardinality({j \in active_players : RemainingBefore(j, i)}) = k - 1]

\* _build_result, lines 328-335: the entry of a player still in
StandingOfRemaining(k) ==
    [model |-> remaining[k],
     final_stack |-> stacks[remaining[k]],
     position |-> k,
     hands_played |-> hands_played,
     eliminated_at |-> None]

\* _build_result, lines 312-338: the players still in are inserted, in
\* order, before the eliminated ones (last out first), and the list is
\* sorted by position
final_standings ==
    LET r == Cardinality(active_players)
        e == Len(eliminations)
        listed == [k \in 1 .. (r + e) |->
                      IF k <= r THEN StandingOfRemaining(k)
                      ELSE StandingOfEliminated(eliminations[e - (k - r) + 1])]
        Before(a, b) == \/ listed[a].position < listed[b].position
                        \/ listed[a].position = listed[b].position /\ a < b
    IN  [k \in 1 .. (r + e) |->
            listed[CHOOSE a \in 1 .. (r + e) :
                      Cardinality({b \in 1 .. (r + e) : Before(b, a)}) = k - 1]]

FullTableIndices == 0 .. (FullTablePlayers - 1)

EliminatedPlayers == {eliminations[k].player_index : k \in 1 .. Len(eliminations)}

\* C22: in a freeze-out a player is removed exactly when its stack is <= 0
\* after a hand and is never dealt into a later hand; finishing positions
\* follow the elimination order (first out = K, last out = 2, sole survivor
\* = 1), and in every final result the positions of the K players form a
\* permutation of 1..K.
C22_EliminationOrder ==
    mode = "full_table" =>
        /\ dpc \in {"loop", "done"} =>
              active_players = {i \in FullTableIndices : stacks[i] > 0}
        /\ EliminatedPlayers = FullTableIndices \ active_players
        /\ Cardinality(EliminatedPlayers) = Len(eliminations)
        /\ dpc = "hand" =>
              \A k \in 1 .. Len(active_indices) :
                  /\ active_indices[k] \in active_players
                  /\ state.starting[k - 1] > 0
        /\ \A k \in 1 .. Len(eliminations) :
              eliminations[k].position = FullTablePlayers - k + 1
        /\ dpc = "done" =>
              /\ Len(final_standings) = FullTablePlayers
              /\ {final_standings[k].model : k \in 1 .. FullTablePlayers} = FullTableIndices
              /\ \A k \in 1 .. FullTablePlayers : final_standings[k].position = k
              /\ \A k \in 1 .. FullTablePlayers :
                    final_standings[k].model \in active_players
                       <=> k <= Cardinality(active_players)
              /\ Cardinality(active_players) = 1 =>
                    /\ final_standings[1].model \in active_players
                    /\ eliminations[Len(eliminations)].position = 2

\* a finished freeze-out with a sole survivor, the others out in different hands
C22_Witness ==
    /\ mode = "full_table"
    /\ dpc = "done"
    /\ Cardinality(active_players) = 1
    /\ Len(eliminations) = FullTablePlayers - 1
    /\ eliminations[1].eliminated_at_hand < eliminations[2].eliminated_at_hand

\* C23: in a freeze-out the button advances after every hand to the next
\* seat in cyclic order that is still live, skipping eliminated seats; at
\* the start of every hand the button is on a live seat and the hand's seat
\* order begins at the button.
C23_ButtonOnLiveSeat ==
    [][ mode = "full_table" =>
          /\ (dpc = "hand" /\ dpc' = "loop") =>
                \/ active_players' = {} /\ button_position' = button_position
                \/ \E k \in 1 .. FullTablePlayers :
                      /\ button_position' = (button_position + k) % FullTablePlayers
                      /\ button_position' \in active_players'
                      /\ \A j \in 1 .. (k - 1) :
                            ((button_position + j) % FullTablePlayers) \notin active_players'
          /\ (dpc = "loop" /\ dpc' = "hand") =>
                /\ button_position \in active_players
                /\ stacks[button_position] > 0
                /\ active_indices'[1] = button_position
                /\ button_position' = button_position ]_vars

\* the second hand begins with the button two seats on, past the seat that
\* went out in the first hand
C23_Witness ==
    /\ mode = "full_table"
    /\ dpc = "hand"
    /\ hands_played = 1
    /\ active_players = {0, 2}
    /\ button_position = 2
    /\ active_indices = <<2, 0>>

\* --------------------------------------------------- the freeze-out alone
\* FullTableTournament.run as a sequential program, scheduled as
\* HeadsUpMatch.run is
FullTableInit == Init /\ mode = "full_table"

FullTableNext ==
    \/ FullTableStartHand
    \/ FullTableHandReturns
    \/ FullTableFinish
    \/ RequestDecision
    \/ LLMCallInLoop
    \/ LLMCallClarify
    \/ ExecuteAndLog
    \/ BettingRoundReturns
    \/ DealStreet
    \/ SkipStreet

\* run is awaited to completion: each of its steps, when it is the one the
\* program is at, is eventually taken
FullTableFairness ==
    /\ WF_vars(FullTableStartHand)
    /\ WF_vars(FullTableHandReturns)
    /\ WF_vars(FullTableFinish)
    /\ WF_vars(RequestDecision)
    /\ WF_vars(LLMCallInLoop)
    /\ WF_vars(LLMCallClarify)
    /\ WF_hpc(ExecuteAndLogReturns)
    /\ WF_vars(BettingRoundReturns)
    /\ WF_stage(DealStreetReturns)
    /\ WF_vars(SkipStreet)

FullTableSpec == FullTableInit /\ [][FullTableNext]_vars /\ FullTableFairness

MaxBlindHands == 13    \* hands the blind structure is driven through

\* the default of GameStateWrapper.__init__'s ante, which no caller passes
DEFAULT_ANTE == 0

\* the float values of _generate_levels, as exact fractions <<n, d>>
Truncated(x) == x[1] \div x[2]

Times_Truncating(x, y) == << (x[1] * y[1]) \div (x[2] * y[2]), 1 >>

Times(x, y) == << x[1] * y[1], x[2] * y[2] >>

BlindLevel(small_blind, big_blind, ante) ==
    [small_blind |-> small_blind, big_blind |-> big_blind, ante |-> ante]

\* BlindStructure._generate_levels: the loop, from the levels made so far
\* and the running sb, bb and ante
RECURSIVE GenerateLevels(_, _, _, _, _)
GenerateLevels(made, sb, bb, ante, params) ==
    IF Len(made) = params.max_levels THEN made
    ELSE LET appended == Append(made, BlindLevel(Truncated(sb), Truncated(bb),
                                                 Truncated(ante)))
             next_sb == Times(sb, params.multiplier)
             next_bb == Times(bb, params.multiplier)
             next_ante ==
                 IF Len(appended) >= 3 /\ ante[1] = 0
                 THEN << Truncated(Times(next_bb, <<1, 10>>)), 1 >>
                 ELSE IF ante[1] > 0 THEN Times(ante, params.multiplier)
                 ELSE ante
         IN  GenerateLevels(appended, next_sb, next_bb, next_ante, params)

\* BlindStructure.levels
levels(params) ==
    GenerateLevels(<<>>, <<params.initial_small_blind, 1>>,
                   <<params.initial_big_blind, 1>>, <<params.initial_ante, 1>>, params)

\* BlindStructure.get_current_level
get_current_level == levels(blind_params)[current_level_index + 1]

\* BlindStructure.get_blinds
get_blinds == <<get_current_level.small_blind, get_current_level.big_blind>>

\* BlindStructure.get_ante
get_ante == get_current_level.ante

\* BlindStructure.hand_completed: the new current_level_index and
\* hands_at_current_level, and the value returned
hand_completed ==
    LET counted == hands_at_current_level + 1
    IN  IF /\ counted >= blind_params.hands_per_level
           /\ current_level_index < Len(levels(blind_params)) - 1
        THEN [current_level_index |-> current_level_index + 1,
              hands_at_current_level |-> 0,
              returned |-> TRUE]
        ELSE [current_level_index |-> current_level_index,
              hands_at_current_level |-> counted,
              returned |-> FALSE]

\* the arguments a BlindStructure is constructed with
BlindParams ==
    [initial_small_blind : {1, 5, 50, 5000},
     initial_big_blind : {2, 10, 100, 10000},
     initial_ante : {0},
     hands_per_level : 1 .. 3,
     multiplier : {<<3, 2>>, <<2, 1>>},
     max_levels : {4, 5}]

\* a driver with its blind structure after construction
BlindsInit ==
    /\ ProgramInit
    /\ mode = "full_table"
    /\ strict_fold
    /\ ParserOff
    /\ RoundRobinOff
    /\ EloOff
    /\ bpc = "loop"
    /\ blind_params \in {b \in BlindParams : b.initial_big_blind = 2 * b.initial_small_blind}
    /\ blinds_increased = FALSE
    /\ hand_blinds = <<>>
    /\ MoreOff

\* FullTableTournament.run, lines 124-156 (HeadsUpMatch.run, lines 123-147):
\* the driver reads the blinds and constructs the hand, whose
\* GameStateWrapper gets them and no ante
BlindsStartHand ==
    /\ bpc = "loop"
    /\ hands_played < MaxBlindHands
    /\ hand_blinds' = [small_blind |-> get_blinds[1],
                       big_blind |-> get_blinds[2],
                       ante |-> DEFAULT_ANTE]
    /\ bpc' = "hand"
    /\ UNCHANGED <<moreVars, parserVars, roundRobinVars, eloVars, blind_params, blinds_increased,
                   driverVarsOfMatch, handVars, agentVars>>

\* FullTableTournament.run, lines 158-170: the hand returns and the driver
\* calls hand_completed
BlindsHandCompleted ==
    /\ bpc = "hand"
    /\ current_level_index' = hand_completed.current_level_index
    /\ hands_at_current_level' = hand_completed.hands_at_current_level
    /\ blinds_increased' = hand_completed.returned
    /\ hands_played' = hands_played + 1
    /\ bpc' = "loop"
    /\ UNCHANGED <<moreVars, parserVars, roundRobinVars, eloVars, blind_params, hand_blinds,
                   mode, strict_fold, dpc, stacks, button_position, active_players,
                   eliminations, handVars, agentVars>>

BlindsNext ==
    \/ BlindsStartHand
    \/ BlindsHandCompleted

BlindsSpec == BlindsInit /\ [][BlindsNext]_vars

\* the level index after n completed hands, as the claim gives it
LevelIndexAfter(n) ==
    Min2(n \div blind_params.hands_per_level, blind_params.max_levels - 1)

\* C25: the blinds in force are a function of the number n of completed
\* hands: the level index is min(n div H, max_levels - 1), the blinds of
\* level k are the initial blinds times r^k truncated to integers, and
\* hand_completed returns true exactly on the calls that change the level.
C25_BlindsFollowHandCount ==
    bpc # "off" =>
        LET r == blind_params.multiplier
        IN  /\ current_level_index = LevelIndexAfter(hands_played)
            /\ \A k \in 0 .. (blind_params.max_levels - 1) :
                  /\ levels(blind_params)[k + 1].small_blind =
                        (blind_params.initial_small_blind * Pow(r[1], k)) \div Pow(r[2], k)
                  /\ levels(blind_params)[k + 1].big_blind =
                        (blind_params.initial_big_blind * Pow(r[1], k)) \div Pow(r[2], k)
            /\ get_blinds[1] = (blind_params.initial_small_blind * Pow(r[1], current_level_index))
                                  \div Pow(r[2], current_level_index)
            /\ (bpc = "loop" /\ hands_played >= 1) =>
                  (blinds_increased <=>
                      LevelIndexAfter(hands_played) # LevelIndexAfter(hands_played - 1))

\* the last level was reached and a further hand left it in force; its
\* blinds are not whole multiples of the level before
C25_Witness ==
    /\ bpc = "loop"
    /\ blind_params.initial_small_blind = 5
    /\ blind_params.multiplier = <<3, 2>>
    /\ current_level_index = blind_params.max_levels - 1
    /\ hands_played > blind_params.hands_per_level * (blind_params.max_levels - 1)
    /\ ~blinds_increased
    /\ get_blinds[1] = 25

\* C26: in the generated blind schedule (initial ante 0) the ante is 0 at
\* levels 1 and 2, equals 10% of that level's big blind at level 3, and at
\* every later level equals the previous level's ante multiplied by r.
C26_AnteFromLevelThree ==
    bpc # "off" =>
        LET lv == levels(blind_params)
            r == blind_params.multiplier
        IN  /\ lv[1].ante = 0
            /\ lv[2].ante = 0
            /\ lv[3].ante = lv[3].big_blind \div 10
            /\ \A k \in 4 .. Len(lv) : lv[k].ante = (lv[k - 1].ante * r[1]) \div r[2]

\* C27: before each hand of a match that uses a blind structure the driver
\* reads the current level, and the hand is played with exactly that
\* level's small blind, big blind and ante: whenever the level's ante is
\* non-zero, the hand collects that ante from every seat.
C27_HandPlayedAtLevel ==
    bpc = "hand" =>
        /\ hand_blinds.small_blind = get_current_level.small_blind
        /\ hand_blinds.big_blind = get_current_level.big_blind
        /\ hand_blinds.ante = get_current_level.ante

\* ------------------------------------------------------------------ EloSystem
K_NEW_PLAYER == 40

K_NORMAL == 20

K_ESTABLISHED == 10

DEFAULT_RATING == 1500

MaxEloUpdates == 2     \* calls of update_ratings on one rating system
NumProcesses == 2      \* processes that share the rating file
MatchesPerProcess == 2 \* matches one process completes

\* the unit of the scores: a float score s is the integer s * Million
Million == 1000000

\* _expected_score(rating_a, rating_b) for rating_b - rating_a = 0, 1, ...:
\* 1 / (1 + 10 ** (d / 400)), in units of 1 / Million, entry d + 1 for d
EXPECTED_SCORE_TABLE ==
    << 500000, 498561, 497122, 495683, 494244, 492805, 491366, 489928, 488489, 487051,
       485613, 484175, 482737, 481300, 479863, 478427, 476990, 475555, 474119, 472684,
       471249, 469815, 468382, 466949, 465516, 464084, 462653, 461222, 459792, 458362,
       456934, 455505, 454078, 452651, 451226, 449801, 448376, 446953, 445531, 444109,
       442688, 441269, 439850, 438432, 437015, 435600, 434185, 432771, 431359, 429947,
       428537, 427128, 425720, 424313, 422908, 421503, 420100, 418699, 417298, 415899,
       414501, 413105, 411710, 410316, 408924, 407534, 406145, 404757, 403371, 401986,
       400603, 399222, 397842, 396464, 395087, 393712, 392339, 390967, 389598, 388229,
       386863, 385499, 384136, 382775, 381416, 380059, 378703, 377350, 375998, 374649,
       373301, 371955, 370611, 369270, 367930, 366592, 365257, 363923, 362592, 361262,
       359935, 358610, 357287, 355966, 354648, 353331, 352017, 350705, 349395, 348088,
       346783, 345480, 344179, 342881, 341585, 340292, 339001, 337712, 336426, 335142,
       333861, 332582, 331305, 330031, 328759, 327490, 326224, 324960, 323698, 322439,
       321183, 319929, 318678, 317430, 316184, 314940, 313700, 312462, 311226, 309994,
       308764, 307537, 306312, 305090, 303871, 302655, 301441, 300231, 299023, 297817,
       296615, 295415, 294219, 293025, 291834, 290645, 289460, 288277, 287098, 285921,
       284747, 283576, 282408, 281243, 280081, 278922, 277765, 276612, 275462, 274314,
       273170, 272028, 270890, 269755, 268622, 267493, 266366, 265243, 264123, 263005,
       261891, 260780, 259672, 258566, 257464, 256365, 255270, 254177, 253087, 252000,
       250917, 249837, 248759, 247685, 246614, 245546, 244481, 243419, 242361, 241305,
       240253, 239204, 238158, 237115, 236075, 235039, 234005, 232975, 231948, 230924,
       229903, 228886, 227871, 226860, 225852, 224847, 223845, 222847, 221852, 220859,
       219870, 218885, 217902, 216923, 215946, 214973, 214003, 213037, 212073, 211113,
       210156, 209202, 208251, 207304, 206359, 205418, 204480, 203545, 202614, 201685,
       200760, 199838, 198919, 198003, 197091, 196181, 195275, 194372, 193472, 192576,
       191682, 190792, 189905, 189021, 188140, 187262, 186388, 185516, 184648, 183783,
       182921, 182062, 181207, 180354, 179505, 178659, 177815, 176975, 176138, 175305,
       174474, 173646, 172822, 172001, 171182, 170367, 169555, 168746, 167940, 167137,
       166338, 165541, 164747, 163957, 163169, 162385, 161603, 160825, 160049, 159277,
       158508, 157741, 156978, 156218, 155460, 154706, 153955, 153207, 152461, 151719,
       150980, 150243, 149510, 148779, 148052, 147327, 146605, 145887, 145171, 144458,
       143748, 143041, 142337, 141635, 140937, 140241, 139549, 138859, 138172, 137488,
       136807, 136129, 135453, 134780, 134110, 133443, 132779, 132118, 131459, 130803,
       130150, 129500, 128852, 128207, 127565, 126926, 126290, 125656, 125025, 124396,
       123771, 123148, 122527, 121910, 121295, 120683, 120073, 119466, 118862, 118261,
       117662, 117065, 116472, 115881, 115292, 114706, 114123, 113542, 112964, 112389,
       111816, 111245, 110677, 110112, 109549, 108989, 108431, 107876, 107323, 106773,
       106225, 105680, 105137, 104597, 104059, 103523, 102990, 102460, 101932, 101406,
       100883, 100362, 99843, 99327, 98813, 98302, 97793, 97286, 96782, 96280,
       95780, 95282, 94787, 94295, 93804, 93316, 92830, 92346, 91865, 91386,
       90909, 90434, 89962, 89492, 89024, 88558, 88095, 87633, 87174, 86717,
       86262, 85810, 85359, 84911, 84465, 84021, 83579, 83139, 82701, 82265,
       81832, 81400, 80971, 80544, 80118, 79695, 79274, 78855, 78438, 78023,
       77609, 77198, 76789, 76382, 75977, 75574, 75173, 74774, 74376, 73981,
       73588, 73196, 72807, 72419, 72033, 71649, 71267, 70887, 70509, 70133,
       69758, 69386, 69015, 68646, 68279, 67914, 67550, 67188, 66828, 66470,
       66114, 65760, 65407, 65056, 64707, 64359, 64013, 63669, 63327, 62986,
       62647, 62310, 61975, 61641, 61309, 60978, 60650, 60322, 59997, 59673,
       59351, 59030, 58711, 58394, 58078, 57764, 57452, 57141, 56832, 56524,
       56218, 55913, 55610, 55308, 55008, 54710, 54413, 54117, 53824, 53531,
       53240, 52951, 52663, 52376, 52091, 51808, 51526, 51245, 50966, 50688,
       50412, 50137, 49864, 49592, 49321, 49052, 48784, 48518, 48253, 47989,
       47727, 47466, 47206, 46948, 46691, 46435, 46181, 45928, 45677, 45427,
       45178, 44930, 44684, 44438, 44195, 43952, 43711, 43471, 43232, 42995,
       42758, 42523, 42290, 42057, 41826, 41596, 41367, 41139, 40913, 40687,
       40463, 40240, 40019, 39798, 39579, 39360, 39143, 38927, 38713, 38499,
       38287, 38075, 37865, 37656, 37448, 37241, 37035, 36830, 36626, 36424,
       36222, 36022, 35823, 35624, 35427, 35231, 35036, 34842, 34649, 34457,
       34266, 34076, 33887, 33699, 33512, 33326, 33141, 32957, 32774, 32592,
       32411, 32231, 32052, 31874, 31697, 31520, 31345, 31171, 30997, 30825,
       30653, 30483, 30313, 30144, 29977, 29810, 29644, 29478, 29314, 29151,
       28988, 28827, 28666, 28506, 28347, 28189, 28032, 27875, 27720, 27565,
       27411, 27258, 27106, 26955, 26804, 26654, 26505, 26357, 26210, 26063,
       25918, 25773, 25629, 25485, 25343, 25201, 25060, 24920, 24780, 24641,
       24503, 24366, 24230, 24094, 23959, 23825, 23691, 23558, 23426, 23295,
       23164, 23035, 22905, 22777, 22649, 22522, 22396, 22270, 22145, 22021,
       21897, 21774, 21652, 21530, 21409, 21289, 21169, 21050, 20932, 20814,
       20697, 20581, 20465, 20350, 20236, 20122, 20009, 19896, 19784, 19673,
       19562, 19452, 19343, 19234, 19126, 19018, 18911, 18804, 18698, 18593,
       18488, 18384, 18280, 18177, 18075, 17973, 17872, 17771, 17671, 17571,
       17472, 17374, 17276, 17178, 17081, 16985, 16889, 16794, 16699, 16605,
       16511, 16418, 16325, 16233, 16141, 16050, 15959, 15869, 15779, 15690,
       15602, 15513, 15426, 15339, 15252, 15166, 15080, 14995, 14910, 14826,
       14742, 14658, 14575, 14493, 14411, 14330, 14248, 14168, 14088, 14008,
       13929, 13850, 13771, 13693, 13616, 13539, 13462, 13386, 13310, 13235,
       13160, 13085, 13011, 12937, 12864, 12791, 12719, 12647, 12575, 12504,
       12433, 12362, 12292, 12222, 12153, 12084, 12016, 11948, 11880, 11812,
       11745, 11679, 11613, 11547, 11481, 11416, 11351, 11287, 11223, 11159,
       11096, 11033, 10970, 10908, 10846, 10784, 10723, 10662, 10602, 10541,
       10482, 10422, 10363, 10304, 10245, 10187, 10129, 10072, 10014, 9958,
       9901 >>

\* EloSystem._expected_score
expected_score(rating_a, rating_b) ==
    LET d == rating_b - rating_a
    IN  IF d >= 0 THEN EXPECTED_SCORE_TABLE[d + 1]
        ELSE Million - EXPECTED_SCORE_TABLE[(-d) + 1]

get_k_factor_AfterMatch(games_played) ==
    IF games_played + 1 < 30 THEN K_NEW_PLAYER
    ELSE IF games_played + 1 < 100 THEN K_NORMAL
    ELSE K_ESTABLISHED

\* EloSystem._get_k_factor
get_k_factor(games_played) ==
    IF games_played < 30 THEN K_NEW_PLAYER
    ELSE IF games_played < 100 THEN K_NORMAL
    ELSE K_ESTABLISHED

EloRating(model, rating, games_played, wins, losses, draws) ==
    [model |-> model, rating |-> rating, games_played |-> games_played,
     wins |-> wins, losses |-> losses, draws |-> draws]

\* EloSystem.get_rating: the ratings with the model's entry created if missing
get_rating(ratings, model) ==
    IF model \in DOMAIN ratings THEN ratings
    ELSE ratings @@ (model :> EloRating(model, DEFAULT_RATING, 0, 0, 0, 0))

\* int(round(rating + k * (actual - expected))), the scores in units of 1 / Million
NewRating(rating, k, actual, expected) ==
    rating + ((k * (actual - expected) + (Million \div 2)) \div Million)

\* EloSystem.update_ratings: self.ratings after the call
update_ratings(ratings, winner_model, loser_model, draw) ==
    LET known == get_rating(get_rating(ratings, winner_model), loser_model)
        winner_elo == known[winner_model]
        loser_elo == known[loser_model]
        expected_winner == expected_score(winner_elo.rating, loser_elo.rating)
        expected_loser == expected_score(loser_elo.rating, winner_elo.rating)
        actual_winner == IF draw THEN Million \div 2 ELSE Million
        actual_loser == IF draw THEN Million \div 2 ELSE 0
        k_winner == get_k_factor(winner_elo.games_played)
        k_loser == get_k_factor(loser_elo.games_played)
        winner_after ==
            EloRating(winner_model,
                      NewRating(winner_elo.rating, k_winner, actual_winner, expected_winner),
                      winner_elo.games_played + 1,
                      winner_elo.wins + (IF draw THEN 0 ELSE 1),
                      winner_elo.losses,
                      winner_elo.draws + (IF draw THEN 1 ELSE 0))
        loser_after ==
            EloRating(loser_model,
                      NewRating(loser_elo.rating, k_loser, actual_loser, expected_loser),
                      loser_elo.games_played + 1,
                      loser_elo.wins,
                      loser_elo.losses + (IF draw THEN 0 ELSE 1),
                      loser_elo.draws + (IF draw THEN 1 ELSE 0))
    IN  [m \in DOMAIN known |->
            IF m = winner_model THEN winner_after
            ELSE IF m = loser_model THEN loser_after
            ELSE known[m]]

\* the models that are rated
EloModels == {"model_a", "model_b"}

\* a stored entry of a model: the ratings and game counts of the file
StoredRatings(m) ==
    {EloRating(m, r, g, g, 0, 0) : r \in {1300, 1500, 1700}, g \in {0, 29, 30, 99, 100}}

\* the contents a rating system can have been loaded with
LoadedRatings ==
    UNION {{f \in [S -> UNION {StoredRatings(m) : m \in S}] : \A m \in S : f[m].model = m} :
              S \in SUBSET EloModels}

\* one rating system, loaded, on which update_ratings is called
EloInit ==
    /\ ProgramInit
    /\ mode = "heads_up"
    /\ strict_fold
    /\ ParserOff
    /\ RoundRobinOff
    /\ BlindsOff
    /\ elo_file = <<>>
    /\ elo_pc = [p \in {1} |-> "up"]
    /\ elo_systems \in [{1} -> LoadedRatings]
    /\ finished = <<>>
    /\ MoreOff

\* a call elo_system.update_ratings(winner, loser, draw)
EloUpdate ==
    /\ Len(finished) < MaxEloUpdates
    /\ \E w \in EloModels, l \in EloModels, draw \in BOOLEAN :
          /\ w # l
          /\ elo_systems' = [elo_systems EXCEPT ![1] = update_ratings(@, w, l, draw)]
          /\ finished' = Append(finished, [process |-> 1, winner |-> w, loser |-> l,
                                           draw |-> draw])
    /\ UNCHANGED <<moreVars, parserVars, roundRobinVars, blindVars, elo_file, elo_pc,
                   driverVarsOfMatch, handVars, agentVars>>

EloSpec == EloInit /\ [][EloUpdate]_vars

\* the rating and the games of a model before it has an entry
RatingOf(ratings, m) == IF m \in DOMAIN ratings THEN ratings[m].rating ELSE 1500

GamesOf(ratings, m) == IF m \in DOMAIN ratings THEN ratings[m].games_played ELSE 0

\* C28: update_ratings sets each player's new rating to round(R + K*(S - E)),
\* E the 400-point logistic expectation, S = 1 for the winner and 0 for the
\* loser (0.5 each on a draw), K = 40 if that player's pre-match
\* games_played < 30, 20 if < 100, else 10; a model has rating 1500 before
\* its first match, so two fresh players end at 1520 and 1480 after one
\* decisive match.
C28_RatingUpdate ==
    [][ Len(finished') = Len(finished) + 1 =>
          LET call == finished'[Len(finished')]
              before == elo_systems[1]
              after == elo_systems'[1]
              K(m) == IF GamesOf(before, m) < 30 THEN 40
                      ELSE IF GamesOf(before, m) < 100 THEN 20 ELSE 10
              S(m) == IF call.draw THEN 500000
                      ELSE IF m = call.winner THEN 1000000 ELSE 0
              E(m, o) == IF RatingOf(before, o) >= RatingOf(before, m)
                         THEN EXPECTED_SCORE_TABLE[RatingOf(before, o) - RatingOf(before, m) + 1]
                         ELSE 1000000
                              - EXPECTED_SCORE_TABLE[RatingOf(before, m) - RatingOf(before, o) + 1]
              Rounded(x) == (x + 500000) \div 1000000
              Right(m, o) ==
                  after[m].rating = RatingOf(before, m) + Rounded(K(m) * (S(m) - E(m, o)))
          IN  /\ Right(call.winner, call.loser)
              /\ Right(call.loser, call.winner)
              /\ (before = <<>> /\ ~call.draw) =>
                    /\ after[call.winner].rating = 1520
                    /\ after[call.loser].rating = 1480 ]_vars

\* a decisive match between a player with 29 games and one with 99, both at
\* 1500 before: the winner moved by K = 40, the loser by K = 20
C28_Witness ==
    /\ elo_pc = [p \in {1} |-> "up"]
    /\ Len(finished) = 1
    /\ ~finished[1].draw
    /\ LET r == elo_systems[1]
       IN  /\ DOMAIN r = EloModels
           /\ r[finished[1].winner].games_played = 30
           /\ r[finished[1].winner].rating = 1520
           /\ r[finished[1].loser].games_played = 100
           /\ r[finished[1].loser].rating = 1490

\* ------------------------------------------- the rating file and its writers
\* the processes that import llm_poker.analytics.elo (CLI runs, the API server)
Processes == 1 .. NumProcesses

\* no process has imported the module, and no ratings were stored yet
RatingFileInit ==
    /\ ProgramInit
    /\ mode = "heads_up"
    /\ strict_fold
    /\ ParserOff
    /\ RoundRobinOff
    /\ BlindsOff
    /\ elo_file = <<>>
    /\ elo_pc = [p \in Processes |-> "new"]
    /\ elo_systems = [p \in Processes |-> <<>>]
    /\ finished = <<>>
    /\ MoreOff

\* EloSystem.load_ratings: every stored entry replaces the one in memory
load_ratings(ratings, data) ==
    [m \in DOMAIN ratings \cup DOMAIN data |->
        IF m \in DOMAIN data THEN data[m] ELSE ratings[m]]

\* elo.py, lines 193-196: the module is imported and the file is loaded
ProcessImports(p) ==
    /\ elo_pc[p] = "new"
    /\ elo_systems' = [elo_systems EXCEPT ![p] = load_ratings(@, elo_file)]
    /\ elo_pc' = [elo_pc EXCEPT ![p] = "up"]
    /\ UNCHANGED <<moreVars, parserVars, roundRobinVars, blindVars, elo_file, finished,
                   driverVarsOfMatch, handVars, agentVars>>

\* the matches a process has completed
CompletedBy(p) == {k \in 1 .. Len(finished) : finished[k].process = p}

\* cli/main.py, lines 153-162, and api/routes/matches.py, lines 79-86: a
\* match of the process returns its result; with a winner the ratings are
\* updated and written, with no await in between
MatchCompletes(p) ==
    /\ elo_pc[p] = "up"
    /\ Cardinality(CompletedBy(p)) < MatchesPerProcess
    /\ \E m1 \in EloModels, m2 \in EloModels, w \in EloModels \cup {"none"} :
          /\ m1 # m2
          /\ w \in {m1, m2, "none"}
          /\ finished' = Append(finished, [process |-> p, model1 |-> m1, model2 |-> m2,
                                           winner |-> w])
          /\ IF w # "none"
             THEN LET loser == IF w = m1 THEN m2 ELSE m1
                      updated == update_ratings(elo_systems[p], w, loser, FALSE)
                  IN  /\ elo_systems' = [elo_systems EXCEPT ![p] = updated]
                      /\ elo_file' = updated
             ELSE UNCHANGED <<elo_systems, elo_file>>
    /\ UNCHANGED <<moreVars, parserVars, roundRobinVars, blindVars, elo_pc,
                   driverVarsOfMatch, handVars, agentVars>>

RatingFileNext == \E p \in Processes : ProcessImports(p) \/ MatchCompletes(p)

RatingFileSpec == RatingFileInit /\ [][RatingFileNext]_vars

\* the counters of a model before it has an entry
CountOf(ratings, m, field) == IF m \in DOMAIN ratings THEN ratings[m][field] ELSE 0

\* C29: after every completed heads-up match, whether won or tied, each of
\* its two models has games_played increased by exactly one and exactly one
\* of its wins / losses / draws counters increased to match the outcome (a
\* tied match counts as a draw for both models).
C29_EveryMatchCounted ==
    [][ Len(finished') = Len(finished) + 1 =>
          LET done == finished'[Len(finished')]
              before == elo_systems[done.process]
              after == elo_systems'[done.process]
              Outcome(m) == IF done.winner = "none" THEN "draws"
                            ELSE IF done.winner = m THEN "wins" ELSE "losses"
          IN  \A m \in {done.model1, done.model2} :
                  /\ CountOf(after, m, "games_played") = CountOf(before, m, "games_played") + 1
                  /\ \A field \in {"wins", "losses", "draws"} :
                        CountOf(after, m, field) =
                            CountOf(before, m, field) + (IF field = Outcome(m) THEN 1 ELSE 0)
      ]_vars

\* the ratings after the first n matches of the history, their updates
\* applied one after another to the empty ratings; a tied match has none
RECURSIVE Replayed(_)
Replayed(n) ==
    IF n = 0 THEN <<>>
    ELSE LET done == finished[n]
             earlier == Replayed(n - 1)
         IN  IF done.winner = "none" THEN earlier
             ELSE update_ratings(earlier, done.winner,
                                 IF done.winner = done.model1 THEN done.model2
                                 ELSE done.model1, FALSE)

\* C30: when several matches complete concurrently (as background tasks of
\* one process, or as separate processes sharing the rating file), the
\* persisted ratings equal the result of applying every match's update one
\* after another in completion order: no match's rating update is lost or
\* overwritten by another writer.
C30_UpdatesSerialized ==
    elo_file = Replayed(Len(finished))

\* ------------------------------------------------- hand and agent, further
\* C36: every decision requested in _run_betting_round is followed by a
\* change of the engine state (an action is applied for the seat), so the
\* same seat is never asked again on an unchanged state and play_hand ends.
C36_DecisionChangesState ==
    [][ExecuteAndLogReturns => state' # state]_vars

\* C37: in every snapshot passed to an agent, current_player_index is the
\* index of the seat asked to act, seat 0 included, and legal_actions is
\* that seat's non-empty legal set.
C37_SnapshotNamesActor ==
    apc # "idle" =>
        /\ snapshot.current_player_index = snapshot.player_index
        /\ snapshot.legal_actions # <<>>
        /\ snapshot.legal_actions = get_legal_actions(state)

\* the messages after position i that answer the tool calls of message i
AnswersTo(i) ==
    LET ids == messages[i].tool_calls
    IN  /\ Len(ids) >= 1
        /\ i + Len(ids) <= Len(messages)
        /\ \A k \in 1 .. Len(ids) :
              /\ messages[i + k].role = "tool"
              /\ messages[i + k].tool_call_id = ids[k]
              /\ messages[i + k].kind = IF ids[k] = "c2" THEN "error" ELSE "result"
        /\ (i + Len(ids) < Len(messages)) => messages[i + Len(ids) + 1].role # "tool"

\* C38: within a decision, whenever an LLM call can be made, every
\* assistant message carrying tool calls is followed immediately by exactly
\* one tool message per call, in call order and with the matching
\* tool_call_id; the call of an unknown tool is answered by a tool message
\* carrying an error object.
C38_ToolCallsAnswered ==
    \A i \in DOMAIN messages :
        /\ (messages[i].role = "assistant" /\ messages[i].kind = "tool_calls")
              => AnswersTo(i)
        /\ messages[i].role = "tool" =>
              \E j \in 1 .. (i - 1) :
                  /\ messages[j].kind = "tool_calls"
                  /\ i - j <= Len(messages[j].tool_calls)

C38_Witness ==
    /\ apc = "loop"
    /\ tool_round = 2
    /\ Len(llm_calls) = 2
    /\ Len(messages) = 8
    /\ messages[3].kind = "tool_calls"
    /\ messages[5].kind = "error"
    /\ messages[6].kind = "tool_calls"

\* C39: the AgentResponse returned by get_action has retry_used exactly
\* when a clarification prompt was sent during the decision, on every
\* return path, the one taken when an LLM call raises included.
C39_RetryUsedIffClarified ==
    apc = "returned" => (response.retry_used <=> ClarificationsSent >= 1)

\* ------------------------------------------------ a PokerAgent called alone
MaxAgentCalls == 3     \* get_action calls made on the agent

\* the engine of a heads-up hand after the blinds, and after the small
\* blind's call
StateAtFirstDecision ==
    PK_BeginBetting(PK_CreateState(<<StartingStack, StartingStack>>, SmallBlind, BigBlind))

StateAtSecondDecision ==
    execute_action(StateAtFirstDecision,
                   [type |-> "call", amount |-> None], <<>>, "preflop", FALSE).state

\* game_state of the calls made on the agent
AgentSnapshots ==
    { get_state_for_player(s, PK_actor_index(s), "preflop", <<>>) :
        s \in {StateAtFirstDecision, StateAtSecondDecision} }

AgentInit ==
    /\ ProgramInit
    /\ mode = "heads_up"
    /\ ~strict_fold
    /\ ParserOff
    /\ RoundRobinOff
    /\ BlindsOff
    /\ EloOff
    /\ StatsOff
    /\ ApiOff
    /\ CardsOff

\* get_action, lines 99-116: the call
GetAction ==
    /\ apc \in {"idle", "returned"}
    /\ get_action_calls < MaxAgentCalls
    /\ \E game_state \in AgentSnapshots : snapshot' = game_state
    /\ apc' = "loop"
    /\ messages' = << Message("system", "prompt", <<>>, ""),
                      Message("user", "action_prompt", <<>>, "") >>
    /\ tool_round' = 0
    /\ llm_calls' = <<>>
    /\ retry_used' = FALSE
    /\ tool_calls_made' = 0
    /\ parses' = <<>>
    /\ response' = NoResponse
    /\ UNCHANGED <<driverVars, handVars>>

\* lines 180-183, 192-195 and 211: the counters when get_action returns
CountersAtReturn ==
    IF apc' # "returned" THEN UNCHANGED statVars
    ELSE /\ get_action_calls' = get_action_calls + 1
         /\ IF response'.error
            THEN /\ parse_failures' = parse_failures + 1
                 /\ UNCHANGED total_calls
            ELSE /\ parse_failures' =
                        parse_failures + (IF response'.default_action_used THEN 1 ELSE 0)
                 /\ total_calls' = total_calls + 1

UnchangedButAgent ==
    UNCHANGED <<parserVars, roundRobinVars, blindVars, eloVars, apiVars, cardVars,
                driverVarsOfMatch, handVars>>

AgentCallInLoop == LLMCallInLoopSteps /\ CountersAtReturn /\ UnchangedButAgent

AgentCallClarify == LLMCallClarifySteps /\ CountersAtReturn /\ UnchangedButAgent

AgentNext ==
    \/ GetAction
    \/ AgentCallInLoop
    \/ AgentCallClarify

AgentSpec == AgentInit /\ [][AgentNext]_vars

\* C40: after any sequence of get_action calls on an agent, total_calls is
\* the number of calls made and parse_failures <= total_calls, so that the
\* parse_failure_rate of get_stats lies in [0, 1].
C40_CountersAgree ==
    apc \in {"idle", "returned"} =>
        /\ total_calls = get_action_calls
        /\ parse_failures <= total_calls

\* ----------------------------------------------- the API task _run_match
\* the models of the request
ModelName(index) == IF index = model1 THEN "model_a" ELSE "model_b"

\* create_heads_up_match has stored the pending match and queued the task;
\* the server's rating system holds what it loaded from the file
ApiInit ==
    /\ ProgramInit
    /\ mode = "heads_up"
    /\ ~strict_fold
    /\ ParserOff
    /\ RoundRobinOff
    /\ BlindsOff
    /\ StatsOff
    /\ CardsOff
    /\ elo_file \in LoadedRatings
    /\ elo_systems = [p \in {1} |-> elo_file]
    /\ elo_pc = [p \in {1} |-> "up"]
    /\ finished = <<>>
    /\ api_pc = "pending"
    /\ match_store = [status |-> "pending", result |-> <<>>, error |-> FALSE]
    /\ file_bytes = "whole"

UnchangedButApi ==
    UNCHANGED <<parserVars, roundRobinVars, blindVars, statVars, cardVars, elo_pc,
                mode, strict_fold, active_players, eliminations, current_level_index,
                hands_at_current_level, handVars, agentVars>>

\* _run_match, line 66
ApiTaskStarts ==
    /\ api_pc = "pending"
    /\ api_pc' = "running"
    /\ match_store' = [match_store EXCEPT !.status = "running"]
    /\ UNCHANGED <<eloVars, file_bytes, dpc, stacks, button_position, hands_played>>
    /\ UnchangedButApi

\* line 79: match.run() returns, from its first hand to its last as one step
ApiMatchReturns ==
    /\ api_pc = "running"
    /\ \E o \in MatchOutcomes :
          /\ stacks' = [i \in 0 .. 1 |-> IF i = 0 THEN o[1] ELSE 2 * StartingStack - o[1]]
          /\ hands_played' = o[2]
          /\ button_position' = o[2] % 2
    /\ dpc' = "done"
    /\ api_pc' = "played"
    /\ UNCHANGED <<eloVars, match_store, file_bytes>>
    /\ UnchangedButApi

\* the task is cancelled while it awaits match.run(): CancelledError is
\* no Exception, so no except branch of the task or of get_action takes it
ApiCancelled ==
    /\ api_pc = "running"
    /\ api_pc' = "cancelled"
    /\ UNCHANGED <<eloVars, match_store, file_bytes, dpc, stacks, button_position,
                   hands_played>>
    /\ UnchangedButApi

\* lines 83-85: the ratings in memory are updated
ApiUpdatesRatings ==
    /\ api_pc = "played"
    /\ winner # None
    /\ LET w == ModelName(winner)
           l == ModelName(1 - winner)
       IN  /\ elo_systems' = [elo_systems EXCEPT ![1] = update_ratings(@, w, l, FALSE)]
           /\ finished' = Append(finished, [process |-> 1, model1 |-> ModelName(model1),
                                            model2 |-> ModelName(model2), winner |-> w])
    /\ api_pc' = "save"
    /\ UNCHANGED <<elo_file, match_store, file_bytes, dpc, stacks, button_position,
                   hands_played>>
    /\ UnchangedButApi

\* save_to_file, line 182: open(filepath, "w") truncates the file
SaveOpens ==
    /\ api_pc = "save"
    /\ file_bytes' = "empty"
    /\ api_pc' = "dump"
    /\ UNCHANGED <<eloVars, match_store, dpc, stacks, button_position, hands_played>>
    /\ UnchangedButApi

\* line 183: json.dump has written a part of the records
SaveWrites ==
    /\ api_pc = "dump"
    /\ file_bytes = "empty"
    /\ file_bytes' = "partial"
    /\ UNCHANGED <<eloVars, api_pc, match_store, dpc, stacks, button_position,
                   hands_played>>
    /\ UnchangedButApi

\* lines 182-183: the with block is left, all records written
SaveCloses ==
    /\ api_pc = "dump"
    /\ file_bytes' = "whole"
    /\ elo_file' = elo_systems[1]
    /\ api_pc' = "saved"
    /\ UNCHANGED <<elo_systems, finished, match_store, dpc, stacks, button_position,
                   hands_played>>
    /\ UnchangedButApi

\* mkdir, open or a write raises OSError; _run_match, lines 117-119
SaveFails ==
    /\ api_pc \in {"save", "dump"}
    /\ api_pc' = "save_failed"
    /\ match_store' = [match_store EXCEPT !.status = "failed", !.error = TRUE]
    /\ UNCHANGED <<eloVars, file_bytes, dpc, stacks, button_position, hands_played>>
    /\ UnchangedButApi

\* lines 88-115: the result is stored
ApiStoresResult ==
    /\ \/ api_pc = "saved"
       \/ api_pc = "played" /\ winner = None
    /\ api_pc' = "done"
    /\ match_store' = [match_store EXCEPT !.status = "completed", !.result = MatchResult]
    /\ UNCHANGED <<eloVars, file_bytes, dpc, stacks, button_position, hands_played>>
    /\ UnchangedButApi

ApiNext ==
    \/ ApiTaskStarts
    \/ ApiMatchReturns
    \/ ApiCancelled
    \/ ApiUpdatesRatings
    \/ SaveOpens
    \/ SaveWrites
    \/ SaveCloses
    \/ SaveFails
    \/ ApiStoresResult

ApiSpec == ApiInit /\ [][ApiNext]_vars

\* C31: the rating file is replaced atomically after each match: at every
\* instant, a failed or interrupted write included, a reader of the file
\* sees the complete previous record set or the complete new one, never an
\* empty or partial file.
C31_FileReplacedAtomically ==
    api_pc # "off" =>
        /\ file_bytes = "whole"
        /\ elo_file \in {elo_systems[1]} \cup
              (IF finished = <<>> THEN {}
               ELSE {r \in LoadedRatings :
                       update_ratings(r, finished[1].winner,
                                      IF finished[1].winner = "model_a" THEN "model_b"
                                      ELSE "model_a", FALSE) = elo_systems[1]})

\* C32: when the write of the rating file fails after a match was played,
\* the ratings in memory keep the match's update and the match is still
\* reported as completed with its result (final stacks, winner).
C32_MatchReportedDespiteWriteFailure ==
    api_pc = "save_failed" =>
        /\ elo_systems[1] =
              update_ratings(elo_file, ModelName(winner), ModelName(1 - winner), FALSE)
        /\ match_store.status = "completed"
        /\ match_store.result = MatchResult

\* C33: a cancellation delivered to a running match ends it with status
\* cancelled; the match status is always one of pending, running,
\* completed, failed, cancelled.
C33_CancelledMatchIsRecorded ==
    api_pc # "off" =>
        /\ match_store.status \in {"pending", "running", "completed", "failed", "cancelled"}
        /\ api_pc = "cancelled" => match_store.status = "cancelled"

\* ------------------------------------------------------------ the cards
MaxDealtHands == 2     \* hands dealt in the process
RngModulus == 32       \* states of the generator
NumDealtSeats == 2     \* seats of the hands dealt

\* the cards of the deck, in the order of the deck
Deck == <<"As", "Kh", "Qd", "Jc", "Ts", "9h", "8d", "7c", "6s">>

\* the generator of the random module, stepped once per number drawn
RngNext(r) == (5 * r + 3) % RngModulus

\* random.shuffle(x): for i from the last index down to the second, a
\* number j below i + 1 is drawn and x[i], x[j] are exchanged
RECURSIVE ShuffleFrom(_, _, _)
ShuffleFrom(x, i, r) ==
    IF i < 2 THEN [cards |-> x, rng |-> r]
    ELSE LET r1 == RngNext(r)
             j == 1 + (r1 % i)
         IN  ShuffleFrom([x EXCEPT ![i] = x[j], ![j] = x[i]], i - 1, r1)

shuffle(x, r) == ShuffleFrom(x, Len(x), r)

CardsOf(seq) == {seq[k] : k \in DOMAIN seq}

\* state.get_dealable_cards(): the cards not dealt yet (the cards the
\* library burns are left out)
get_dealable_cards(hole, board) ==
    LET used == CardsOf(board) \cup UNION {CardsOf(hole[i]) : i \in DOMAIN hole}
        Dealable(c) == c \notin used
    IN  SelectSeq(Deck, Dealable)

DealtSeats == 0 .. (NumDealtSeats - 1)

\* deal_hole_cards, lines 148-169: two rounds, one card to each seat
HoleCardsFrom(dealable) ==
    [i \in DealtSeats |-> <<dealable[i + 1], dealable[i + 1 + NumDealtSeats]>>]

NoCards == "null"

\* get_state_for_player, lines 366-380, with _snapshot_to_dict: the
\* hole_cards of the players of the snapshot made for player_index
PlayersHoleCards_Uncensored(hole, player_index) ==
    [i \in DealtSeats |-> IF i \in DOMAIN hole THEN hole[i] ELSE NoCards]

PlayersHoleCards(hole, player_index) ==
    [i \in DealtSeats |->
        IF i = player_index /\ i \in DOMAIN hole THEN hole[i] ELSE NoCards]

\* the process starts; its generator is in the state its seed gives
DealInit ==
    /\ ProgramInit
    /\ mode = "heads_up"
    /\ ~strict_fold
    /\ ParserOff
    /\ RoundRobinOff
    /\ BlindsOff
    /\ EloOff
    /\ StatsOff
    /\ ApiOff
    /\ cpc = "ready"
    /\ seeded \in 0 .. (RngModulus - 1)
    /\ rng = seeded
    /\ hole_cards = <<>>
    /\ board_cards = <<>>
    /\ dealt = <<>>
    /\ players_view = <<>>

UnchangedButCards ==
    UNCHANGED <<parserVars, roundRobinVars, blindVars, eloVars, statVars, apiVars,
                driverVarsOfMatch, handVars, agentVars>>

\* the hand under way, in the record of the hands dealt
WithCards(hole, board) ==
    [dealt EXCEPT ![Len(dealt)] = [@ EXCEPT !.hole = hole, !.board = board]]

\* play_hand, lines 100-118: a new GameStateWrapper, and deal_hole_cards
HandBegins ==
    /\ cpc # "off"
    /\ Len(dealt) < MaxDealtHands
    /\ LET sh == shuffle(get_dealable_cards(<<>>, <<>>), rng)
       IN  /\ hole_cards' = HoleCardsFrom(sh.cards)
           /\ rng' = sh.rng
           /\ dealt' = Append(dealt, [seed |-> seeded, hole |-> HoleCardsFrom(sh.cards),
                                      board |-> <<>>])
    /\ board_cards' = <<>>
    /\ players_view' = <<>>
    /\ cpc' = "hole"
    /\ UNCHANGED seeded
    /\ UnchangedButCards

\* deal_community_cards(count), lines 181-204
DealCommunityCards ==
    /\ cpc \in {"hole", "flop", "turn"}
    /\ LET count == IF cpc = "hole" THEN 3 ELSE 1
           sh == shuffle(get_dealable_cards(hole_cards, board_cards), rng)
           board == board_cards \o SubSeq(sh.cards, 1, count)
       IN  /\ board_cards' = board
           /\ rng' = sh.rng
           /\ dealt' = WithCards(hole_cards, board)
    /\ cpc' = IF cpc = "hole" THEN "flop" ELSE IF cpc = "flop" THEN "turn" ELSE "river"
    /\ UNCHANGED <<seeded, hole_cards, players_view>>
    /\ UnchangedButCards

\* _run_betting_round, lines 222-226: the snapshot made for the seat to act
SnapshotTaken ==
    /\ cpc \in {"hole", "flop", "turn", "river"}
    /\ \E p \in DealtSeats :
          players_view' = [player_index |-> p,
                           hole_cards |-> PlayersHoleCards(hole_cards, p),
                           community_cards |-> board_cards]
    /\ UNCHANGED <<cpc, rng, seeded, hole_cards, board_cards, dealt>>
    /\ UnchangedButCards

DealNext ==
    \/ HandBegins
    \/ DealCommunityCards
    \/ SnapshotTaken

DealSpec == DealInit /\ [][DealNext]_vars

\* the cards two hands have both been dealt are the same cards
SameCards(a, b) ==
    /\ a.hole = b.hole
    /\ \A k \in DOMAIN a.board \cap DOMAIN b.board : a.board[k] = b.board[k]

\* C34: each hand draws from its own generator seeded by the driver, so
\* the cards of a hand are a function of its seed only: two hands with the
\* same seed are dealt the same hole and board cards, whatever other hands
\* ran before them in the process.
C34_CardsFollowSeed ==
    \A a \in DOMAIN dealt, b \in DOMAIN dealt :
        dealt[a].seed = dealt[b].seed => SameCards(dealt[a], dealt[b])

\* the hole cards other hands could have given the seats other than p
OtherHoleCards(p) ==
    {h \in [DealtSeats -> CardsOf(Deck) \X CardsOf(Deck)] : h[p] = hole_cards[p]}

\* C35: the snapshot handed to the acting seat p holds p's own hole cards
\* and null hole cards for every other seat: two hands that differ only in
\* the hole cards of the seats other than p give p identical snapshots.
C35_OthersCardsHidden ==
    players_view # <<>> =>
        LET p == players_view.player_index
        IN  /\ players_view.hole_cards[p] = hole_cards[p]
            /\ \A i \in DealtSeats \ {p} : players_view.hole_cards[i] = NoCards
            /\ \A h \in OtherHoleCards(p) :
                  PlayersHoleCards(h, p) = players_view.hole_cards

C35_Witness ==
    /\ players_view # <<>>
    /\ players_view.player_index = 0
    /\ cpc = "flop"
    /\ hole_cards[1] # hole_cards[0]
    /\ hole_cards[1][1] \in CardsOf(Deck)
    /\ Cardinality(OtherHoleCards(0)) > 1

====
